---- MODULE Spec2Model ----
(***************************************************************************)
(* A model of the oyc virtual machine (src/vm/interpreter.py), of the      *)
(* host's module cache (src/oyc.py) and of the switch lowering of the      *)
(* bytecode generator (src/compiler/bytecode_generator.py).                *)
(*                                                                         *)
(* The interpreter is modelled as a state machine with one action per      *)
(* instruction executor.  The running program is not a fixed instruction   *)
(* sequence: every frame may execute, in any order, any instruction of     *)
(* the instruction set of its function prototype (Instructions), until it  *)
(* executes RETURN.  The prototypes are those the compiler would emit for  *)
(*                                                                         *)
(*   script MAIN:  top level             (prototype 0, variadic argv,      *)
(*                                        local f in r1, temporary r2)     *)
(*                 F = () {..}           (prototype 1, locals x in r0 and  *)
(*                                        g in r1)                         *)
(*                 G = (rest...) {..x..} (prototype 2, captures F's x)     *)
(*                 H = () {..}           (prototype 3, made in F, three    *)
(*                                        registers, no captures)          *)
(*   script ARGS:  top level             (prototype 0, callee in r2,       *)
(*                                        arguments in r3..r5)             *)
(*                 P = (a, b = <e>) {..} (prototype 1)                     *)
(*                 Q = (a, rest...) {..} (prototype 2)                     *)
(*   modules A, B, C: a top level that calls require(path [, extra]).      *)
(***************************************************************************)
EXTENDS Integers, Sequences, FiniteSets, TLC

\* ------------------------------------------------------------------------
\* Bounds of the model
\* ------------------------------------------------------------------------
\* the max_stack_depth the Interpreter is constructed with
max_stack_depth == 7
MaxClosures == 4
MaxCalls == 4
\* switch statements: the case clauses, the statements of a clause body and
\* the values of labels
MaxCases == 2
MaxStatements == 2
MaxLabel == 2
\* operators: the width of an INTEGER in bits (64 in the language)
IntegerWidth == 4
\* slots: the elements of an array, the fields of a structure
MaxLength == 2
\* conversions: the length of the converted string
MaxStringLength == 3
\* l-values: the arguments of a call
MaxArguments == 1

\* ------------------------------------------------------------------------
\* Values (src/vm/value.py)
\* ------------------------------------------------------------------------
\* Every Value is a record of the same shape, so that any two are comparable:
\* type is the ValueType; data is the scalar payload (an integer, a closure
\* id, a file path id, a builtin id); elems is the payload of an ARRAY.
Value(type_, data, elems) == [type |-> type_, data |-> data, elems |-> elems]

VOID == Value("VOID", 0, <<>>)
Integer(n) == Value("INTEGER", n, <<>>)
String(p) == Value("STRING", p, <<>>)
ClosureValue(c) == Value("CLOSURE", c, <<>>)
Array(elems) == Value("ARRAY", 0, elems)
BuiltinFunction(id) == Value("BUILTIN_FUNCTION", id, <<>>)
Boolean(b) == Value("BOOLEAN", IF b THEN 1 ELSE 0, <<>>)
NULL == Value("NULL", 0, <<>>)
\* a FLOATING_POINT whose payload is the whole number x
FloatingPoint(x) == Value("FLOATING_POINT", x, <<>>)
\* a STRING given by its characters
Str(chars) == Value("STRING", 0, chars)
\* an ARRAY or STRUCTURE that refers to container `id` of a heap
Reference(type_, id) == Value(type_, id, <<>>)

\* Python's == on the payloads of two values, the first one an INTEGER, a
\* FLOATING_POINT or a STRING (interpreter.py:564): None equals only None, a
\* str only an equal str, and bool, int and float compare as numbers
PayloadsEqual(value2, value3) ==
    IF value2.type = "STRING" \/ value3.type = "STRING"
    THEN value2.type = value3.type /\ value2.data = value3.data
                                  /\ value2.elems = value3.elems
    ELSE /\ value3.type \in {"BOOLEAN", "INTEGER", "FLOATING_POINT"}
         /\ value2.data = value3.data

\* Value.__bool__ (value.py:165-177), for the types of the model
bool(value) ==
    CASE value.type = "NULL" -> FALSE
      [] value.type = "BOOLEAN" -> value.data = 1
      [] value.type \in {"INTEGER", "FLOATING_POINT"} -> value.data # 0
      [] value.type = "ARRAY" -> Len(value.elems) >= 1
      [] OTHER -> TRUE

REQUIRE == 1

\* Files (canonical paths) known to the host
MAIN == 1
MODULE_A == 2
MODULE_B == 3
MODULE_C == 4
ARGS == 5
Files == {MAIN, ARGS, MODULE_A, MODULE_B, MODULE_C}
ModuleFiles == {MODULE_A, MODULE_B, MODULE_C}

\* the module cache's states besides a module value
ABSENT == Value("ABSENT", 0, <<>>)
MODULE_VALUE_PLACEHOLDER == Value("PLACEHOLDER", 0, <<>>)

\* ------------------------------------------------------------------------
\* Function prototypes (src/vm/function_prototype.py), as the compiler
\* emits them for the scripts above
\* ------------------------------------------------------------------------
CaptureInfo(capture_is_original, id) ==
    [capture_is_original |-> capture_is_original, id |-> id]

FunctionPrototype(R, D, V, n, infos) ==
    [number_of_regular_parameters |-> R, number_of_default_parameters |-> D,
     is_variadic |-> V, number_of_registers |-> n, capture_infos |-> infos]

TOP == 0
PROTO_F == 1
PROTO_G == 2
PROTO_H == 3
PROTO_P == 1
PROTO_Q == 2

get_function_prototype(executable, function_prototype_id) ==
    IF executable = MAIN
    THEN CASE function_prototype_id = TOP -> FunctionPrototype(0, 0, TRUE, 3, <<>>)
           [] function_prototype_id = PROTO_F -> FunctionPrototype(0, 0, FALSE, 2, <<>>)
           [] function_prototype_id = PROTO_G ->
                FunctionPrototype(0, 0, TRUE, 2, <<CaptureInfo(TRUE, 0)>>)
           [] function_prototype_id = PROTO_H -> FunctionPrototype(0, 0, FALSE, 3, <<>>)
    ELSE IF executable = ARGS
    THEN CASE function_prototype_id = TOP -> FunctionPrototype(0, 0, TRUE, 6, <<>>)
           [] function_prototype_id = PROTO_P -> FunctionPrototype(1, 1, FALSE, 3, <<>>)
           [] function_prototype_id = PROTO_Q -> FunctionPrototype(1, 0, TRUE, 3, <<>>)
    ELSE FunctionPrototype(0, 0, TRUE, 4, <<>>)

RegisterIds == 0 .. 5

\* An instruction: opcode and its four operands
Instruction(op, operand1, operand2, operand3, operand4) ==
    [op |-> op, operand1 |-> operand1, operand2 |-> operand2,
     operand3 |-> operand3, operand4 |-> operand4]

NoInstruction == Instruction("NO", 0, 0, 0, 0)

\* The instruction set of each prototype: the instructions that occur in its
\* bytecode.  CALL and NEW_CLOSURE have operand1 = operand2, as
\* visit_variary_expression and visit_nullary_expression emit them.
Instructions(executable, function_prototype_id) ==
    IF executable = MAIN
    THEN CASE function_prototype_id = TOP ->
                {Instruction("NEW_CLOSURE", 2, 2, 2, PROTO_F)}
                \cup {Instruction("MOVE", 1, 2, 0, 0), Instruction("MOVE", 2, 1, 0, 0)}
                \cup {Instruction("CALL", 2, 2, 3, 0)}
                \cup {Instruction("RETURN", 1, 0, 0, 0)}
           [] function_prototype_id = PROTO_F ->
                {Instruction("LOAD_INTEGER", 0, 0, 0, v) : v \in 1 .. 2}
                \cup {Instruction("NEW_CLOSURE", 1, 1, 1, PROTO_G)}
                \cup {Instruction("NEW_CLOSURE", 1, 1, 1, PROTO_H)}
                \cup {Instruction("CALL", 1, 1, 2, 0)}
                \cup {Instruction("RETURN", 1, 0, 0, 0)}
           [] function_prototype_id = PROTO_G ->
                {Instruction("LOAD_INTEGER", 1, 0, 0, 3)}
                \cup {Instruction("GET_CAPTURE", 1, 0, 0, 0)}
                \cup {Instruction("SET_CAPTURE", 1, 0, 0, 0)}
                \cup {Instruction("RETURN", 1, 0, 0, 0)}
           [] function_prototype_id = PROTO_H ->
                {Instruction("LOAD_INTEGER", 2, 0, 0, 1)}
                \cup {Instruction("RETURN", 2, 0, 0, 0)}
    ELSE IF executable = ARGS
    THEN CASE function_prototype_id = TOP ->
                {Instruction("LOAD_INTEGER", 2, 0, 0, 0)}
                \cup {Instruction("NEW_CLOSURE", 2, 2, 3, PROTO_P)}
                \cup {Instruction("NEW_CLOSURE", 2, 2, 2, PROTO_Q)}
                \cup {Instruction("LOAD_INTEGER", r, 0, 0, r - 2) : r \in 3 .. 5}
                \cup {Instruction("CALL", 2, 2, e, 0) : e \in 3 .. 6}
                \cup {Instruction("RETURN", 2, 0, 0, 0)}
           [] function_prototype_id = PROTO_P -> {Instruction("RETURN", 1, 0, 0, 0)}
           [] function_prototype_id = PROTO_Q -> {Instruction("RETURN", 0, 0, 0, 0)}
    ELSE {Instruction("LOAD_BUILTIN_FUNCTION", 1, REQUIRE, 0, 0)}
         \cup {Instruction("LOAD_CONSTANT", 2, 0, 0, p) : p \in ModuleFiles}
         \cup {Instruction("LOAD_INTEGER", 3, 0, 0, v) : v \in 1 .. 2}
         \cup {Instruction("MOVE", 2, 3, 0, 0)}
         \cup {Instruction("CALL", 1, 1, e, 0) : e \in 2 .. 4}
         \cup {Instruction("RETURN", r, 0, 0, 0) : r \in {1, 3}}

\* A source location: the instruction it belongs to (the offset -> location
\* map of a prototype is injective here)
SourceLocation(executable, function_prototype_id, instruction) ==
    [executable |-> executable, function_prototype_id |-> function_prototype_id,
     instruction |-> instruction]

\* the location scanner.get_source_location() gives run_script for `file`
ScriptLocation(file) == SourceLocation(file, TOP, NoInstruction)

\* ------------------------------------------------------------------------
\* State
\* ------------------------------------------------------------------------
VARIABLES
    stack,          \* Interpreter._stack: the register array
    call_frames,    \* the chain Interpreter._call_frame .. parent, outermost first
    return_value,   \* Interpreter._return_value
    closures,       \* the Closure objects created so far
    captures,       \* the Capture objects created so far
    register_id_2_original_capture,  \* CallFrame's (class-level) default dict
    file_path_2_module_value,        \* OYC._file_path_2_module_value
    error,          \* the exception that left the interpreter, if any
    host,           \* where the host is: "init", "running", "done", "exited"
    history,        \* what the program did so far (not program state)
    switch,         \* a compiled switch statement and the frame that executes it
    ops,            \* a frame that executes operators and slot instructions
    foreach,        \* a compiled foreach statement and the frame that executes it
    compiler        \* the bytecode generator compiling an assignment

interpreter_vars == <<stack, call_frames, return_value, closures, captures,
                      register_id_2_original_capture, file_path_2_module_value, error,
                      host, history>>

\* the frames and the generator that are modelled on their own
unit_vars == <<ops, foreach, compiler>>

vars == <<interpreter_vars, switch, unit_vars>>

NoError == [kind |-> "none", source_location |-> ScriptLocation(MAIN)]
Error(kind, source_location) == [kind |-> kind, source_location |-> source_location]

\* history.last describes the instruction executed by the last step
NoEvent == [op |-> "NO", invocation |-> 0, closure |-> 0, stack_base |-> 0,
            arguments |-> <<>>, value |-> VOID, file |-> 0, snapshot |-> <<>>,
            capture_id |-> 0]

Event(op, invocation, closure, stack_base, arguments, value, file, snapshot) ==
    [op |-> op, invocation |-> invocation, closure |-> closure, stack_base |-> stack_base,
     arguments |-> arguments, value |-> value, file |-> file, snapshot |-> snapshot,
     capture_id |-> 0]

NoFrame == [closure |-> 0, stack_base |-> 0, source_location |-> ScriptLocation(MAIN),
            invocation |-> 0, via |-> "none", result |-> 0, file_path |-> 0]

\* A CallFrame (interpreter.py:19-24) together with the locals of the Python
\* frames that wait for it to return: how it was entered (via: "host" from
\* run_script, "require" from _builtin_require_impl, "call" from
\* _execute_call), the position of the CALL's result register and the
\* file_path of run_script / _builtin_require_impl.  invocation numbers the
\* calls.  register_id_2_original_capture is not a field: its default value
\* {} is one dict shared by all CallFrames, the variable of that name.
CallFrame(closure, stack_base, source_location, invocation, via, result, file_path) ==
    [closure |-> closure, stack_base |-> stack_base, source_location |-> source_location,
     invocation |-> invocation, via |-> via, result |-> result, file_path |-> file_path]

\* A Capture (value.py:36-46): its value is either the Value object of stack
\* position pos (linked) or a Value of its own.  invocation and register_id
\* record which call created it, for which register.
Capture(linked, pos, value, invocation, register_id) ==
    [linked |-> linked, pos |-> pos, value |-> value,
     invocation |-> invocation, register_id |-> register_id]

\* A Closure (value.py:49-56); invocation records the call that created it
Closure(executable, function_prototype_id, default_arguments, captures_, invocation) ==
    [executable |-> executable, function_prototype_id |-> function_prototype_id,
     default_arguments |-> default_arguments, captures |-> captures_,
     invocation |-> invocation]

\* no switch statement is being executed
NoSwitch == [statement |-> <<>>, instructions |-> <<>>, registers |-> <<>>,
             next_instruction_offset |-> 0, return_value |-> VOID, state |-> "none"]

InitInterpreter ==
    /\ stack = <<>>
    /\ call_frames = <<>>
    /\ return_value = VOID
    /\ closures = <<>>
    /\ captures = <<>>
    /\ register_id_2_original_capture = [r \in RegisterIds |-> 0]
    /\ file_path_2_module_value = [p \in Files |-> ABSENT]
    /\ error = NoError
    /\ host = "init"
    /\ history = [last |-> NoEvent, invocations |-> 0,
                  compiled |-> [p \in Files |-> 0], executed |-> [p \in Files |-> 0],
                  code |-> <<>>]

\* no operator frame, no foreach statement, no assignment being compiled
NoOps == [state |-> "none"]
NoForeach == [state |-> "none"]
NoCompiler == [state |-> "none"]

InitUnits ==
    /\ ops = NoOps
    /\ foreach = NoForeach
    /\ compiler = NoCompiler

Init ==
    /\ InitInterpreter
    /\ switch = NoSwitch
    /\ InitUnits

\* ------------------------------------------------------------------------
\* Helpers of the interpreter
\* ------------------------------------------------------------------------
Running == host = "running" /\ error = NoError /\ call_frames # <<>>
Frame == call_frames[Len(call_frames)]
CurrentClosure == closures[Frame.closure]
CurrentPrototype ==
    get_function_prototype(CurrentClosure.executable, CurrentClosure.function_prototype_id)
CurrentInstructions ==
    Instructions(CurrentClosure.executable, CurrentClosure.function_prototype_id)

\* index in `stack` of register r of the current frame (sequences start at 1)
Register(r) == Frame.stack_base + r + 1

get_source_location(instruction) ==
    SourceLocation(CurrentClosure.executable, CurrentClosure.function_prototype_id,
                   instruction)

\* the Value a capture refers to, given the register array
CaptureValue(stk, capture) ==
    IF capture.linked THEN stk[capture.pos + 1] ELSE capture.value

\* a variant of the overflow test that never fails
ReserveOverflows_Never(stack_base, relative_stack_depth) == FALSE

\* _reserve_stack: the overflow test (interpreter.py:68-71)
ReserveOverflows(stack_base, relative_stack_depth) ==
    stack_base + relative_stack_depth > max_stack_depth

\* _reserve_stack: the growth (interpreter.py:73-74)
reserve_stack(stk, stack_base, relative_stack_depth) ==
    IF stack_base + relative_stack_depth > Len(stk)
    THEN stk \o [i \in 1 .. (stack_base + relative_stack_depth - Len(stk)) |-> VOID]
    ELSE stk

\* a variant of _free_stack that also clears the registers below stack_base
free_stack_FromBottom(stk, stack_base, relative_stack_depth) ==
    [pos \in DOMAIN stk |->
        IF pos - 1 < stack_base + relative_stack_depth THEN VOID ELSE stk[pos]]

\* _free_stack (interpreter.py:76-78)
free_stack(stk, stack_base, relative_stack_depth) ==
    [pos \in DOMAIN stk |->
        IF pos - 1 >= stack_base /\ pos - 1 < stack_base + relative_stack_depth
        THEN VOID ELSE stk[pos]]

\* a variant of the lookup that never finds an existing capture
OriginalCaptureOf_NeverFound(dict, register_id) == 0

\* _make_closure: the lookup of a register's original capture (interpreter.py:91);
\* 0 stands for None
OriginalCaptureOf(dict, register_id) == dict[register_id]

\* _make_closure: the loop over capture_infos (interpreter.py:86-102).  Gives
\* the capture list of the new closure, and the captures and the dict after it.
RECURSIVE MakeCaptures(_, _, _, _, _)
MakeCaptures(infos, frame, caps, dict, acc) ==
    IF infos = <<>>
    THEN [list |-> acc, captures |-> caps, dict |-> dict]
    ELSE LET info == Head(infos) IN
         IF info.capture_is_original
         THEN IF OriginalCaptureOf(dict, info.id) # 0
              THEN MakeCaptures(Tail(infos), frame, caps, dict,
                                Append(acc, OriginalCaptureOf(dict, info.id)))
              ELSE MakeCaptures(Tail(infos), frame,
                                Append(caps, Capture(TRUE, frame.stack_base + info.id, VOID,
                                                     frame.invocation, info.id)),
                                [dict EXCEPT ![info.id] = Len(caps) + 1],
                                Append(acc, Len(caps) + 1))
         ELSE MakeCaptures(Tail(infos), frame, caps, dict,
                           Append(acc, closures[frame.closure].captures[info.id + 1]))

\* _make_closure (interpreter.py:80-104): default arguments are copied
make_closure(executable, function_prototype_id, default_arguments, frame) ==
    LET made == MakeCaptures(
                    get_function_prototype(executable, function_prototype_id).capture_infos,
                    frame, captures, register_id_2_original_capture, <<>>)
    IN  [closure |-> Closure(executable, function_prototype_id, default_arguments,
                             made.list, frame.invocation),
         captures |-> made.captures, dict |-> made.dict]

\* a variant of the checks that also rejects a call with exactly the regular
\* parameters
ArityError_Inclusive(function_prototype, number_of_arguments) ==
    IF number_of_arguments <= function_prototype.number_of_regular_parameters
    THEN "MissingArgument"
    ELSE IF /\ ~function_prototype.is_variadic
            /\ number_of_arguments > function_prototype.number_of_regular_parameters
                                     + function_prototype.number_of_default_parameters
         THEN "TooManyArguments"
         ELSE "none"

\* _call_closure: the checks of the number of arguments (interpreter.py:110-118)
ArityError(function_prototype, number_of_arguments) ==
    IF number_of_arguments < function_prototype.number_of_regular_parameters
    THEN "MissingArgument"
    ELSE IF /\ ~function_prototype.is_variadic
            /\ number_of_arguments > function_prototype.number_of_regular_parameters
                                     + function_prototype.number_of_default_parameters
         THEN "TooManyArguments"
         ELSE "none"

\* _call_closure: the default argument for parameter slot i (interpreter.py:124-125)
DefaultArgument(closure, function_prototype, i) ==
    closure.default_arguments[i - function_prototype.number_of_regular_parameters + 1]

\* _call_closure: the rest arguments of a variadic call (interpreter.py:129-133)
RestArguments(stk, stack_base, number_of_parameters, number_of_arguments) ==
    [j \in 1 .. (IF number_of_arguments > number_of_parameters
                 THEN number_of_arguments - number_of_parameters ELSE 0) |->
        stk[stack_base + number_of_parameters + j]]

\* a variant of the entry that fills every default parameter's slot with its
\* default, also those an argument was passed for
EnterStack_OverwritesOptional(stk, closure, stack_base, number_of_arguments) ==
    LET function_prototype ==
            get_function_prototype(closure.executable, closure.function_prototype_id)
        number_of_parameters == function_prototype.number_of_regular_parameters
                                + function_prototype.number_of_default_parameters
        stk1 == [pos \in DOMAIN stk |->
                    LET i == pos - 1 - stack_base IN
                    IF /\ i >= function_prototype.number_of_regular_parameters
                       /\ i < number_of_parameters
                    THEN DefaultArgument(closure, function_prototype, i)
                    ELSE stk[pos]]
    IN  IF function_prototype.is_variadic
        THEN [stk1 EXCEPT ![stack_base + number_of_parameters + 1] =
                Array(RestArguments(stk1, stack_base, number_of_parameters,
                                    number_of_arguments))]
        ELSE stk1

\* _call_closure: the register array on entry to the body (interpreter.py:122-136)
EnterStack(stk, closure, stack_base, number_of_arguments) ==
    LET function_prototype ==
            get_function_prototype(closure.executable, closure.function_prototype_id)
        number_of_parameters == function_prototype.number_of_regular_parameters
                                + function_prototype.number_of_default_parameters
        stk1 == [pos \in DOMAIN stk |->
                    LET i == pos - 1 - stack_base IN
                    IF i >= number_of_arguments /\ i < number_of_parameters
                    THEN DefaultArgument(closure, function_prototype, i)
                    ELSE stk[pos]]
    IN  IF function_prototype.is_variadic
        THEN [stk1 EXCEPT ![stack_base + number_of_parameters + 1] =
                Array(RestArguments(stk1, stack_base, number_of_parameters,
                                    number_of_arguments))]
        ELSE stk1

\* _call_closure up to the entry of the body (interpreter.py:106-140), on the
\* register array stk; sets stack, call_frames and error
CallClosure(stk, source_location, closure_id, closure, stack_base, number_of_arguments, via, result, file_path) ==
    LET function_prototype ==
            get_function_prototype(closure.executable, closure.function_prototype_id)
        arity == ArityError(function_prototype, number_of_arguments)
    IN  IF arity # "none"
        THEN /\ error' = Error(arity, source_location)
             /\ stack' = stk
             /\ call_frames' = call_frames
        ELSE IF ReserveOverflows(stack_base, function_prototype.number_of_registers)
        THEN /\ error' = Error("StackOverflow", source_location)
             /\ stack' = stk
             /\ call_frames' = call_frames
        ELSE /\ error' = error
             /\ stack' = EnterStack(reserve_stack(stk, stack_base,
                                                  function_prototype.number_of_registers),
                                    closure, stack_base, number_of_arguments)
             /\ call_frames' = Append(call_frames,
                                      CallFrame(closure_id, stack_base, source_location,
                                                history.invocations + 1, via, result,
                                                file_path))

\* Interpreter.run (interpreter.py:45-54): makes the closure of prototype 0,
\* reserves the registers of the arguments, stores the arguments and calls
Run(source_location, executable, stack_base, arguments, via, result) ==
    LET made == make_closure(executable, TOP, <<>>,
                             IF call_frames = <<>> THEN NoFrame ELSE Frame)
    IN  /\ closures' = Append(closures, made.closure)
        /\ captures' = made.captures
        /\ register_id_2_original_capture' = made.dict
        /\ IF ReserveOverflows(stack_base, Len(arguments))
           THEN /\ error' = Error("StackOverflow", source_location)
                /\ UNCHANGED <<stack, call_frames>>
           ELSE LET stk1 == reserve_stack(stack, stack_base, Len(arguments))
                    stk2 == [pos \in DOMAIN stk1 |->
                                IF /\ pos - 1 >= stack_base
                                   /\ pos - 1 < stack_base + Len(arguments)
                                THEN arguments[pos - stack_base] ELSE stk1[pos]]
                IN  CallClosure(stk2, source_location, Len(closures) + 1, made.closure,
                                stack_base, Len(arguments), via, result, executable)

\* ------------------------------------------------------------------------
\* The host (src/oyc.py)
\* ------------------------------------------------------------------------
Scripts == {MAIN, ARGS, MODULE_A}
HostArguments(file) == IF file = MODULE_A THEN {<<>>, <<String(MODULE_B)>>} ELSE {<<>>}

\* does Interpreter.run of `executable` at stack_base enter the top level?
RunEnters(executable, stack_base, arguments) ==
    /\ ~ReserveOverflows(stack_base, Len(arguments))
    /\ ArityError(get_function_prototype(executable, TOP), Len(arguments)) = "none"
    /\ ~ReserveOverflows(stack_base,
                         get_function_prototype(executable, TOP).number_of_registers)

\* the bookkeeping of a step that compiles `file` and runs it
Loaded(event, file, entered) ==
    [last |-> event, invocations |-> history.invocations + 1,
     compiled |-> [history.compiled EXCEPT ![file] = @ + 1],
     executed |-> [history.executed EXCEPT ![file] = @ + (IF entered THEN 1 ELSE 0)],
     code |-> history.code]

\* OYC.run_script up to the entry of the script's top level (oyc.py:21-33)
RunScript ==
    /\ host = "init"
    /\ UNCHANGED <<switch, unit_vars>>
    /\ \E file \in Scripts : \E arguments \in HostArguments(file) :
        /\ file_path_2_module_value' =
                [file_path_2_module_value EXCEPT ![file] = MODULE_VALUE_PLACEHOLDER]
        /\ host' = "running"
        /\ Run(ScriptLocation(file), file, 0, arguments, "host", 0)
        /\ history' = Loaded(Event("RUN", history.invocations + 1, Len(closures) + 1, 0,
                                   arguments, VOID, file, <<>>),
                             file, RunEnters(file, 0, arguments))
        /\ UNCHANGED return_value

\* a variant that does not recognise the placeholder
RequireIsCircular_Never(module_value) == FALSE

\* _builtin_require_impl: is the module being loaded? (oyc.py:115)
RequireIsCircular(module_value) == module_value = MODULE_VALUE_PLACEHOLDER

\* a variant that loads the module whatever the cache holds
RequireMustLoad_Always(module_value) == TRUE

\* _builtin_require_impl: is the module to be loaded? (oyc.py:118)
RequireMustLoad(module_value) == module_value = ABSENT

\* ------------------------------------------------------------------------
\* The instruction executors (src/vm/interpreter.py)
\* ------------------------------------------------------------------------
Executed(event) == [history EXCEPT !.last = event]

\* the event of a GET_CAPTURE or SET_CAPTURE of the running closure
CaptureEvent(op, value, capture_id) ==
    [Event(op, Frame.invocation, Frame.closure, 0, <<>>, value, 0, <<>>)
        EXCEPT !.capture_id = capture_id]

\* the event of a require(file_path, ...) that does not load the module
RequireEvent(op, stack_base, arguments, value) ==
    Event(op, Frame.invocation, 0, stack_base, Tail(arguments), value,
          arguments[1].data, <<>>)

\* an executor raises: the exception leaves the interpreter, nothing else changes
Raise(kind, instruction, event) ==
    /\ error' = Error(kind, get_source_location(instruction))
    /\ history' = Executed(event)
    /\ UNCHANGED <<stack, call_frames, return_value, closures, captures,
                   register_id_2_original_capture, file_path_2_module_value, host>>

\* an executor stores value in register r
Store(r, value, event) ==
    /\ stack' = [stack EXCEPT ![Register(r)] = value]
    /\ history' = Executed(event)
    /\ UNCHANGED <<call_frames, return_value, closures, captures,
                   register_id_2_original_capture, file_path_2_module_value, error, host>>

\* _execute_load_integer (interpreter.py:186-190)
ExecuteLoadInteger ==
    /\ Running
    /\ UNCHANGED <<switch, unit_vars>>
    /\ \E instruction \in CurrentInstructions :
        /\ instruction.op = "LOAD_INTEGER"
        /\ Store(instruction.operand1, Integer(instruction.operand4), NoEvent)

\* _execute_load_constant (interpreter.py:192-197); the constants are file paths
ExecuteLoadConstant ==
    /\ Running
    /\ UNCHANGED <<switch, unit_vars>>
    /\ \E instruction \in CurrentInstructions :
        /\ instruction.op = "LOAD_CONSTANT"
        /\ Store(instruction.operand1, String(instruction.operand4), NoEvent)

\* _execute_load_builtin_function (interpreter.py:199-204)
ExecuteLoadBuiltinFunction ==
    /\ Running
    /\ UNCHANGED <<switch, unit_vars>>
    /\ \E instruction \in CurrentInstructions :
        /\ instruction.op = "LOAD_BUILTIN_FUNCTION"
        /\ Store(instruction.operand1, BuiltinFunction(instruction.operand2), NoEvent)

\* _execute_move (interpreter.py:206-215)
ExecuteMove ==
    /\ Running
    /\ UNCHANGED <<switch, unit_vars>>
    /\ \E instruction \in CurrentInstructions :
        /\ instruction.op = "MOVE"
        /\ IF stack[Register(instruction.operand2)].type = "VOID"
           THEN Raise("IncompatibleOperandTypes", instruction, NoEvent)
           ELSE Store(instruction.operand1, stack[Register(instruction.operand2)],
                      NoEvent)

\* _execute_get_capture (interpreter.py:227-237)
ExecuteGetCapture ==
    /\ Running
    /\ UNCHANGED <<switch, unit_vars>>
    /\ \E instruction \in CurrentInstructions :
        /\ instruction.op = "GET_CAPTURE"
        /\ LET capture == captures[CurrentClosure.captures[instruction.operand4 + 1]] IN
           IF CaptureValue(stack, capture).type = "VOID"
           THEN Raise("IncompatibleOperandTypes", instruction, NoEvent)
           ELSE Store(instruction.operand1, CaptureValue(stack, capture),
                      CaptureEvent("GET_CAPTURE", CaptureValue(stack, capture),
                                   instruction.operand4))

\* _execute_set_capture (interpreter.py:239-249)
ExecuteSetCapture ==
    /\ Running
    /\ UNCHANGED <<switch, unit_vars>>
    /\ \E instruction \in CurrentInstructions :
        /\ instruction.op = "SET_CAPTURE"
        /\ LET value == stack[Register(instruction.operand1)]
               capture_id == CurrentClosure.captures[instruction.operand4 + 1]
               capture == captures[capture_id]
           IN  IF value.type = "VOID"
               THEN Raise("IncompatibleOperandTypes", instruction, NoEvent)
               ELSE /\ IF capture.linked
                       THEN /\ stack' = [stack EXCEPT ![capture.pos + 1] = value]
                            /\ captures' = captures
                       ELSE /\ captures' = [captures EXCEPT ![capture_id].value = value]
                            /\ stack' = stack
                    /\ history' = Executed(CaptureEvent("SET_CAPTURE", value,
                                                        instruction.operand4))
                    /\ UNCHANGED <<call_frames, return_value, closures,
                                   register_id_2_original_capture,
                                   file_path_2_module_value, error, host>>

\* _execute_new_closure (interpreter.py:663-677)
ExecuteNewClosure ==
    /\ Running
    /\ UNCHANGED <<switch, unit_vars>>
    /\ Len(closures) < MaxClosures
    /\ \E instruction \in CurrentInstructions :
        /\ instruction.op = "NEW_CLOSURE"
        /\ LET default_arguments == SubSeq(stack, Register(instruction.operand2),
                                           Register(instruction.operand3) - 1)
               made == make_closure(CurrentClosure.executable, instruction.operand4,
                                    default_arguments, Frame)
           IN  IF \E i \in DOMAIN default_arguments : default_arguments[i].type = "VOID"
               THEN Raise("IncompatibleOperandTypes", instruction, NoEvent)
               ELSE /\ closures' = Append(closures, made.closure)
                    /\ captures' = made.captures
                    /\ register_id_2_original_capture' = made.dict
                    /\ stack' = [stack EXCEPT ![Register(instruction.operand1)] =
                                    ClosureValue(Len(closures) + 1)]
                    /\ history' = Executed(NoEvent)
                    /\ UNCHANGED <<call_frames, return_value, file_path_2_module_value,
                                   error, host>>

\* _execute_call (interpreter.py:679-701) up to the entry of the callee's body,
\* for a CLOSURE callee: _call_closure; for the builtin require:
\* _builtin_require_impl (oyc.py:104-127), which either fails, returns the
\* cached module value or compiles the module and runs it
ExecuteCall ==
    /\ Running
    /\ UNCHANGED <<switch, unit_vars>>
    /\ history.invocations < MaxCalls
    /\ \E instruction \in CurrentInstructions :
        /\ instruction.op = "CALL"
        /\ LET result == Frame.stack_base + instruction.operand1
               stack_base == Frame.stack_base + instruction.operand2 + 1
               callee == stack[stack_base]
               arguments == SubSeq(stack, stack_base + 1,
                                   Frame.stack_base + instruction.operand3)
               source_location == get_source_location(instruction)
               file_path == arguments[1].data
               module_value == file_path_2_module_value[file_path]
               called == [history EXCEPT
                            !.last = Event("CALL", history.invocations + 1, callee.data,
                                           stack_base, arguments, VOID, 0, <<>>),
                            !.invocations = @ + 1]
           IN
           IF \E i \in DOMAIN arguments : arguments[i].type = "VOID"
           THEN Raise("IncompatibleOperandTypes", instruction, NoEvent)
           ELSE IF callee.type = "CLOSURE"
           THEN /\ CallClosure(stack, source_location, callee.data, closures[callee.data],
                               stack_base, Len(arguments), "call", result, 0)
                /\ history' = called
                /\ UNCHANGED <<return_value, closures, captures,
                               register_id_2_original_capture, file_path_2_module_value,
                               host>>
           ELSE IF callee.type # "BUILTIN_FUNCTION"
           THEN Raise("IncompatibleOperandTypes", instruction, NoEvent)
           ELSE IF arguments = <<>>
           THEN Raise("MissingArgument", instruction, NoEvent)
           ELSE IF arguments[1].type # "STRING"
           THEN Raise("require() failed: file path must be a string", instruction, NoEvent)
           ELSE IF RequireIsCircular(module_value)
           THEN Raise("require() failed: circular dependency", instruction,
                      RequireEvent("REQUIRE_FAILED", stack_base, arguments, VOID))
           ELSE IF RequireMustLoad(module_value)
           THEN /\ Len(closures) < MaxClosures
                /\ file_path_2_module_value' =
                        [file_path_2_module_value EXCEPT
                            ![file_path] = MODULE_VALUE_PLACEHOLDER]
                /\ Run(source_location, file_path, stack_base, Tail(arguments),
                       "require", result)
                /\ history' = Loaded(Event("REQUIRE", history.invocations + 1,
                                           Len(closures) + 1, stack_base, Tail(arguments),
                                           VOID, file_path, <<>>),
                                     file_path,
                                     RunEnters(file_path, stack_base, Tail(arguments)))
                /\ UNCHANGED <<return_value, host>>
           ELSE /\ stack' = [stack EXCEPT ![result + 1] = module_value]
                /\ history' = Executed(RequireEvent("REQUIRE_CACHED", stack_base,
                                                    arguments, module_value))
                /\ UNCHANGED <<call_frames, return_value, closures, captures,
                               register_id_2_original_capture, file_path_2_module_value,
                               error, host>>

\* _call_closure, after the body: the detaching of the original captures
\* (interpreter.py:145-146).  The loop runs over the values of the returning
\* frame's register_id_2_original_capture.
DetachedCaptures(stk, dict) ==
    [capture_id \in DOMAIN captures |->
        IF \E register_id \in DOMAIN dict : dict[register_id] = capture_id
        THEN [captures[capture_id] EXCEPT
                !.linked = FALSE,
                !.value = CaptureValue(stk, captures[capture_id])]
        ELSE captures[capture_id]]

\* _execute_return (interpreter.py:703-707), the rest of _call_closure
\* (interpreter.py:142-149) and what the caller does with the returned value:
\* _execute_call stores it in the result register (interpreter.py:701),
\* _builtin_require_impl (oyc.py:125) and run_script (oyc.py:39) put it in
\* the module cache first
ExecuteReturn ==
    /\ Running
    /\ UNCHANGED <<switch, unit_vars>>
    /\ \E instruction \in CurrentInstructions :
        /\ instruction.op = "RETURN"
        /\ LET value == stack[Register(instruction.operand1)]
               number_of_registers == CurrentPrototype.number_of_registers
               freed == free_stack(stack, Frame.stack_base, number_of_registers)
           IN  /\ return_value' = value
               /\ call_frames' = SubSeq(call_frames, 1, Len(call_frames) - 1)
               /\ captures' = DetachedCaptures(stack, register_id_2_original_capture)
               /\ stack' = IF Frame.via = "host" THEN freed
                           ELSE [freed EXCEPT ![Frame.result + 1] = value]
               /\ file_path_2_module_value' =
                    IF Frame.via = "call" THEN file_path_2_module_value
                    ELSE [file_path_2_module_value EXCEPT ![Frame.file_path] = value]
               /\ host' = IF Frame.via = "host" THEN "done" ELSE host
               /\ history' = Executed(Event("RETURN", Frame.invocation, Frame.closure,
                                            Frame.stack_base, <<>>, value, Frame.file_path,
                                            SubSeq(stack, Frame.stack_base + 1,
                                                   Frame.stack_base + number_of_registers)))
               /\ UNCHANGED <<closures, register_id_2_original_capture, error>>

\* a variant of the exit code that tells only VOID from the other kinds
ExitCode_VoidOrNot(module_value) == IF module_value.type = "VOID" THEN 0 ELSE 1

\* the code that __main__ passes to sys.exit (oyc.py:163-170)
ExitCode(module_value) ==
    IF module_value.type = "INTEGER" THEN module_value.data
    ELSE IF module_value.type = "VOID" THEN 0
    ELSE 1

\* __main__ after run_script has returned (oyc.py:161-172): module_value is
\* the copy of Interpreter._return_value that _call_closure returned to
\* Interpreter.run and run_script; history.code records the argument of
\* sys.exit
HostExit ==
    /\ host = "done"
    /\ host' = "exited"
    /\ history' = [history EXCEPT !.code = <<ExitCode(return_value)>>]
    /\ UNCHANGED <<stack, call_frames, return_value, closures, captures,
                   register_id_2_original_capture, file_path_2_module_value, error>>
    /\ UNCHANGED <<switch, unit_vars>>

Next ==
    \/ RunScript
    \/ HostExit
    \/ ExecuteLoadInteger
    \/ ExecuteLoadConstant
    \/ ExecuteLoadBuiltinFunction
    \/ ExecuteMove
    \/ ExecuteGetCapture
    \/ ExecuteSetCapture
    \/ ExecuteNewClosure
    \/ ExecuteCall
    \/ ExecuteReturn

Spec == Init /\ [][Next]_vars

C30_CallKeepsCallerRegisters ==
    [][\A k \in DOMAIN call_frames :
        LET callee_slot ==
                IF k < Len(call_frames) THEN call_frames[k + 1].stack_base
                ELSE IF Len(call_frames') > k THEN call_frames'[k + 1].stack_base
                ELSE 0
        IN  \A pos \in call_frames[k].stack_base + 1 .. callee_slot - 1 :
                \/ stack'[pos] = stack[pos]
                \/ history'.last.op = "SET_CAPTURE"]_vars

\* a required module's top level has returned to a caller that holds a value
\* in a register below the callee slot
C30_Witness ==
    /\ history.last.op = "RETURN"
    /\ call_frames # <<>>
    /\ history.last.file # 0
    /\ history.last.stack_base - 1 > Frame.stack_base
    /\ \E pos \in Frame.stack_base + 1 .. history.last.stack_base - 1 :
            stack[pos].type # "VOID"

\* ------------------------------------------------------------------------
\* The lowering of switch statements (src/compiler/bytecode_generator.py)
\* ------------------------------------------------------------------------
\* The compiled function is
\*     auto out = 0; switch (<value>) { <clauses> } return out;
\* where the statements of a clause body are `out = <n>;` and `break;`.
\* out is register 1, the switch operand register 2, the temporary register 3.
\* An instruction's offset is its index in the instruction list, from 0.
None == 0
AssignStatement(n) == [type |-> "assign", data |-> n]
BreakStatement == [type |-> "break", data |-> 0]
SwitchClause(label, statements) == [label |-> label, statements |-> statements]
SwitchStatement(expression, clauses) == [expression |-> expression, clauses |-> clauses]

\* The generator's state g holds the instructions of the function prototype,
\* the register stack (RegisterStack._register_infos), the next register of
\* the pool, the first register of each sub-scope of the pool that is open
\* (the chain of _RegisterPoolDelta), the marked registers, the context
\* (_BytecodeGeneratorContext, bytecode_generator.py:981-985) and the
\* exception that has been raised, if any: every step after an exception
\* leaves g as it is.
Generator(next_register_id) ==
    [instructions |-> <<>>, register_infos |-> <<>>,
     next_register_id |-> next_register_id, scopes |-> <<>>, marked |-> {},
     is_assigning_value |-> FALSE, break_instruction_offsets |-> <<>>,
     continue_instruction_offsets |-> <<>>, fallthrough_instruction_offset |-> <<>>,
     error |-> "none"]

\* FunctionPrototype.add_instruction / get_next_instruction_offset /
\* set_instruction, on the generator's state g
add_instruction(g, instruction) ==
    [g EXCEPT !.instructions = Append(@, instruction)]
get_next_instruction_offset(g) == Len(g.instructions)
set_instruction(g, instruction_offset, operand4) ==
    [g EXCEPT !.instructions[instruction_offset + 1].operand4 = operand4]

Failed(g) == g.error # "none"
raise(g, error_) == IF Failed(g) THEN g ELSE [g EXCEPT !.error = error_]
emit(g, instruction) == IF Failed(g) THEN g ELSE add_instruction(g, instruction)
patch(g, instruction_offset, operand4) ==
    IF Failed(g) THEN g ELSE set_instruction(g, instruction_offset, operand4)

\* set_instruction for each of the offsets
RECURSIVE SetInstructions(_, _, _)
SetInstructions(g, instruction_offsets, operand4) ==
    IF Failed(g) \/ instruction_offsets = <<>> THEN g
    ELSE SetInstructions(set_instruction(g, Head(instruction_offsets), operand4),
                         Tail(instruction_offsets), operand4)

\* the register on top of the register stack
Top(g) ==
    IF g.register_infos = <<>> THEN 0 ELSE g.register_infos[Len(g.register_infos)][1]

\* FunctionScope.push_target (function_scope.py:72-76), RegisterStack.push
\* (register.py:120-128); register_id is <<>> for None
push_target(g, register_id) ==
    IF Failed(g) THEN g
    ELSE IF register_id = <<>>
    THEN [g EXCEPT !.register_infos = Append(@, <<g.next_register_id, TRUE>>),
                   !.next_register_id = @ + 1]
    ELSE [g EXCEPT !.register_infos = Append(@, <<register_id[1], FALSE>>)]

\* FunctionScope.pop_target (function_scope.py:78-79), RegisterStack.pop
\* (register.py:130-137): the caller takes the register from Top(g)
pop_target(g) ==
    IF Failed(g) THEN g
    ELSE IF g.register_infos = <<>> THEN raise(g, "IndexError")
    ELSE LET register_info == g.register_infos[Len(g.register_infos)] IN
         IF register_info[2] /\ register_info[1] # g.next_register_id - 1
         THEN raise(g, "AssertionError")
         ELSE [g EXCEPT !.register_infos = SubSeq(@, 1, Len(@) - 1),
                        !.next_register_id = IF register_info[2] THEN @ - 1 ELSE @]

\* FunctionScope.peek_target (function_scope.py:81-82), RegisterStack.peek
\* (register.py:139-141): the caller takes the register from Top(g)
peek_target(g) ==
    IF Failed(g) \/ g.register_infos # <<>> THEN g ELSE raise(g, "IndexError")

\* FunctionScope.create_local_variable (function_scope.py:37-44),
\* _RegisterPoolDelta.allocate_register (register.py:77-93) for a new name: the
\* register is g.next_register_id before the call; the assertion fails when
\* the register allocated last in the sub-scope is a temporary one
create_local_variable(g) ==
    IF Failed(g) THEN g
    ELSE IF \E i \in DOMAIN g.register_infos :
                /\ g.register_infos[i] = <<g.next_register_id - 1, TRUE>>
                /\ g.next_register_id - 1 >=
                        (IF g.scopes = <<>> THEN 0 ELSE g.scopes[Len(g.scopes)])
    THEN raise(g, "AssertionError")
    ELSE [g EXCEPT !.next_register_id = @ + 1]

\* RegisterPool.has_marked_registers, which function_scope.py:92 calls and
\* register.py does not define: a register of the current sub-scope is marked
has_marked_registers(g) ==
    \E register_id \in g.marked : register_id >= g.scopes[Len(g.scopes)]

\* RegisterPool.mark_register, which function_scope.py:130 calls and
\* register.py does not define
mark_register(g, register_id) ==
    IF Failed(g) THEN g ELSE [g EXCEPT !.marked = @ \cup {register_id}]

\* _enter_block_scope (bytecode_generator.py:920-931) and RegisterPool.save
\* (register.py:47-52) up to their yield: the sub-scope starts at the next
\* register
enter_block_scope(g) ==
    IF Failed(g) THEN g ELSE [g EXCEPT !.scopes = Append(@, g.next_register_id)]

\* _enter_block_scope and RegisterPool.save after their yield, which an
\* exception of the body does not reach (neither has a try statement)
leave_block_scope(g) ==
    IF Failed(g) THEN g
    ELSE LET register_id == g.scopes[Len(g.scopes)]
             g1 == IF has_marked_registers(g)
                   THEN emit(g, Instruction("KILL_ORIGINAL_CAPTURES", register_id, 0, 0, 0))
                   ELSE g
         IN  [g1 EXCEPT !.scopes = SubSeq(@, 1, Len(@) - 1),
                        !.next_register_id = register_id,
                        !.marked = {r \in @ : r < register_id}]

\* _enter_switch (bytecode_generator.py:933-943) up to its yield
enter_switch(g) ==
    IF Failed(g) THEN g
    ELSE [g EXCEPT !.break_instruction_offsets = <<>>,
                   !.fallthrough_instruction_offset = <<>>]

\* _enter_switch after its yield, which an exception of the body does not
\* reach: the lists of backup that were not replaced are the very lists of g
leave_switch(g, backup) ==
    IF Failed(g) THEN g
    ELSE [g EXCEPT !.is_assigning_value = backup.is_assigning_value,
                   !.break_instruction_offsets = backup.break_instruction_offsets,
                   !.fallthrough_instruction_offset = backup.fallthrough_instruction_offset]

\* _enter_loop (bytecode_generator.py:945-955) up to its yield
enter_loop(g) ==
    IF Failed(g) THEN g
    ELSE [g EXCEPT !.break_instruction_offsets = <<>>,
                   !.continue_instruction_offsets = <<>>]

\* _enter_loop after its yield, which an exception of the body does not reach
leave_loop(g, backup) ==
    IF Failed(g) THEN g
    ELSE [g EXCEPT !.is_assigning_value = backup.is_assigning_value,
                   !.break_instruction_offsets = backup.break_instruction_offsets,
                   !.continue_instruction_offsets = backup.continue_instruction_offsets]

\* _assign_value (bytecode_generator.py:957-966) up to its yield
assign_value(g, on_off) ==
    IF Failed(g) THEN g ELSE [g EXCEPT !.is_assigning_value = on_off]

\* _assign_value after its yield, which an exception of the body does not
\* reach
leave_assign_value(g, backup) ==
    IF Failed(g) THEN g ELSE [g EXCEPT !.is_assigning_value = backup.is_assigning_value]

\* visit_break_statement (bytecode_generator.py:99-106)
visit_break_statement(g) ==
    [add_instruction(g, Instruction("JUMP", 0, 0, 0, 0)) EXCEPT
        !.break_instruction_offsets = Append(@, get_next_instruction_offset(g))]

\* the statement `out = n;`: the literal is loaded into a temporary, which
\* is moved to out
visit_assign_statement(g, statement) ==
    LET g1 == push_target(g, <<>>)
        g2 == emit(g1, Instruction("LOAD_INTEGER", Top(g1), 0, 0, statement.data))
        g3 == peek_target(g2)
    IN  pop_target(emit(g3, Instruction("MOVE", 1, Top(g3), 0, 0)))

\* statement.accept_visit
RECURSIVE VisitStatement(_, _)

\* statement.accept_visit for each statement of a body
RECURSIVE VisitStatements(_, _)
VisitStatements(g, statements) ==
    IF statements = <<>> THEN g
    ELSE VisitStatements(VisitStatement(g, Head(statements)), Tail(statements))

\* visit_switch_clause (bytecode_generator.py:191-240); the label is a literal
visit_switch_clause(g, switch_clause) ==
    IF switch_clause.label = None
    THEN VisitStatements(g, switch_clause.statements)
    ELSE LET g1 == push_target(g, <<>>)
             g2 == emit(g1, Instruction("LOAD_INTEGER", Top(g1), 0, 0, switch_clause.label))
             register_id1 == Top(g2)
             g3 == peek_target(pop_target(g2))
             register_id2 == Top(g3)
             g4 == push_target(g3, <<>>)
             g5 == emit(g4, Instruction("EQUAL", Top(g4), register_id1, register_id2, 0))
             register_id == Top(g5)
             g6 == pop_target(g5)
             instruction_offset1 == get_next_instruction_offset(g6)
             g7 == emit(g6, Instruction("JUMP_IF_FALSE", register_id, 0, 0, 0))
             g8 == SetInstructions(g7, g7.fallthrough_instruction_offset,
                                   get_next_instruction_offset(g7))
             \* after the statements of the clause (bytecode_generator.py:227-240)
             fall_through(g9) ==
                LET instruction_offset2 == get_next_instruction_offset(g9)
                    g10 == IF Failed(g9) THEN g9
                           ELSE [add_instruction(g9, Instruction("JUMP", 0, 0, 0, 0)) EXCEPT
                                   !.fallthrough_instruction_offset = <<instruction_offset2>>]
                IN  patch(g10, instruction_offset1, get_next_instruction_offset(g10))
         IN  fall_through(VisitStatements(g8, switch_clause.statements))

\* the loop over statement.clauses (bytecode_generator.py:173-174)
RECURSIVE VisitClauses(_, _)
VisitClauses(g, clauses) ==
    IF clauses = <<>> THEN g
    ELSE VisitClauses(visit_switch_clause(g, Head(clauses)), Tail(clauses))

\* visit_switch_statement (bytecode_generator.py:164-189), without an
\* initialization; the expression is a literal
visit_switch_statement(g, statement) ==
    LET g1 == enter_switch(g)
        g2 == push_target(g1, <<>>)
        g3 == emit(g2, Instruction("LOAD_INTEGER", Top(g2), 0, 0, statement.expression))
        \* after the clauses (bytecode_generator.py:176-189)
        leave(g4) ==
            LET label == get_next_instruction_offset(g4)
                g5 == SetInstructions(g4, g4.break_instruction_offsets, label)
                g6 == SetInstructions(g5, g5.fallthrough_instruction_offset, label)
            IN  leave_switch(g6, g)
    IN  leave(pop_target(VisitClauses(g3, statement.clauses)))

\* the instructions of the function around the switch statement
Compile(statement) ==
    LET g0 == add_instruction(Generator(2), Instruction("LOAD_INTEGER", 1, 0, 0, 0))
    IN  add_instruction(visit_switch_statement(g0, statement),
                        Instruction("RETURN", 1, 0, 0, 0)).instructions

\* the bodies a clause can have
Bodies(n) ==
    UNION {[1 .. m -> {AssignStatement(n), BreakStatement}] : m \in 0 .. MaxStatements}

\* the switch statements: case clauses, then possibly a default clause (the
\* parser ends a default clause at the closing brace, parser.py:309-320)
SwitchStatements ==
    UNION {
        {SwitchStatement(expression,
                         [k \in 1 .. n |-> SwitchClause(labels[k], bodies[k])] \o default) :
            expression \in 1 .. MaxLabel + 1,
            labels \in [1 .. n -> 1 .. MaxLabel],
            bodies \in [1 .. n -> Bodies(1)],
            default \in {<<>>} \cup {<<SwitchClause(None, body)>> : body \in Bodies(2)}} :
        n \in 0 .. MaxCases}

SwitchInit ==
    /\ InitInterpreter
    /\ InitUnits
    /\ \E statement \in SwitchStatements :
        switch = [statement |-> statement,
                  instructions |-> <<>>,
                  registers |-> [r \in 1 .. 3 |-> VOID],
                  next_instruction_offset |-> 0,
                  return_value |-> VOID,
                  state |-> "parsed"]

\* BytecodeGenerator.get_executable (bytecode_generator.py:858-861) compiles
\* the function; the interpreter then runs it
SwitchGetExecutable ==
    /\ switch.state = "parsed"
    /\ switch' = [switch EXCEPT !.state = "running",
                                !.instructions = Compile(switch.statement)]
    /\ UNCHANGED <<interpreter_vars, unit_vars>>

\* _execute_instructions (interpreter.py:151-163): the instruction to execute
SwitchInstruction == switch.instructions[switch.next_instruction_offset + 1]

Executes(op) ==
    /\ switch.state = "running"
    /\ SwitchInstruction.op = op
    /\ UNCHANGED <<interpreter_vars, unit_vars>>

\* an executor of the switch frame stores value in register r and returns None
SwitchStore(r, value) ==
    switch' = [switch EXCEPT !.registers[r] = value,
                             !.next_instruction_offset = @ + 1]

SwitchRaise == switch' = [switch EXCEPT !.state = "error"]

\* _execute_load_integer (interpreter.py:186-190)
SwitchLoadInteger ==
    /\ Executes("LOAD_INTEGER")
    /\ SwitchStore(SwitchInstruction.operand1, Integer(SwitchInstruction.operand4))

\* _execute_move (interpreter.py:206-215)
SwitchMove ==
    /\ Executes("MOVE")
    /\ IF switch.registers[SwitchInstruction.operand2].type = "VOID"
       THEN SwitchRaise
       ELSE SwitchStore(SwitchInstruction.operand1,
                        switch.registers[SwitchInstruction.operand2])

\* _execute_instruction4 (interpreter.py:546-568) with f the identity:
\* the comparison of two values that are not VOID
instruction4(value2, value3) ==
    IF value2.type = value2.type
    THEN IF value2.type = "NULL" THEN TRUE
         ELSE IF value2.type \in {"INTEGER", "FLOATING_POINT", "STRING"}
              THEN PayloadsEqual(value2, value3)
              ELSE FALSE
    ELSE FALSE

\* _execute_equal (interpreter.py:570-573)
SwitchEqual ==
    /\ Executes("EQUAL")
    /\ LET value2 == switch.registers[SwitchInstruction.operand2]
           value3 == switch.registers[SwitchInstruction.operand3]
       IN  IF value2.type = "VOID" \/ value3.type = "VOID"
           THEN SwitchRaise
           ELSE SwitchStore(SwitchInstruction.operand1,
                            Boolean(instruction4(value2, value3)))

\* _execute_jump (interpreter.py:623-626)
SwitchJump ==
    /\ Executes("JUMP")
    /\ switch' = [switch EXCEPT !.next_instruction_offset = SwitchInstruction.operand4]

\* _execute_jump_if_false (interpreter.py:648-651), _execute_instruction6
\* (interpreter.py:628-641)
SwitchJumpIfFalse ==
    /\ Executes("JUMP_IF_FALSE")
    /\ LET value == switch.registers[SwitchInstruction.operand1] IN
       IF value.type = "VOID"
       THEN SwitchRaise
       ELSE switch' = [switch EXCEPT !.next_instruction_offset =
                            IF ~bool(value) THEN SwitchInstruction.operand4 ELSE @ + 1]

\* _execute_return (interpreter.py:703-707)
SwitchReturn ==
    /\ Executes("RETURN")
    /\ switch' = [switch EXCEPT !.return_value = switch.registers[SwitchInstruction.operand1],
                                !.state = "returned"]

SwitchNext ==
    \/ SwitchGetExecutable
    \/ SwitchLoadInteger
    \/ SwitchMove
    \/ SwitchEqual
    \/ SwitchJump
    \/ SwitchJumpIfFalse
    \/ SwitchReturn

SwitchSpec == SwitchInit /\ [][SwitchNext]_vars

\* where the generator puts the parts of the switch statement
StatementSize(statement) == IF statement.type = "break" THEN 1 ELSE 2

RECURSIVE BodySize(_)
BodySize(statements) ==
    IF statements = <<>> THEN 0
    ELSE StatementSize(Head(statements)) + BodySize(Tail(statements))

ClauseSize(switch_clause) ==
    IF switch_clause.label = None THEN BodySize(switch_clause.statements)
    ELSE 3 + BodySize(switch_clause.statements) + 1

\* the offset of the first instruction of clause k (of the exit for k past
\* the last clause)
RECURSIVE ClauseStart(_)
ClauseStart(k) ==
    IF k = 1 THEN 2
    ELSE ClauseStart(k - 1) + ClauseSize(switch.statement.clauses[k - 1])

BodyStart(k) ==
    ClauseStart(k) + (IF switch.statement.clauses[k].label = None THEN 0 ELSE 3)
BodyEnd(k) == BodyStart(k) + BodySize(switch.statement.clauses[k].statements)
SwitchExit == ClauseStart(Len(switch.statement.clauses) + 1)

\* C5: when the body of a clause finishes without executing break (control
\* is at the end of the body), the next step takes control to the start of
\* the body of the next clause, whatever that clause is, without executing
\* its label test; after the body of the last clause it leaves the switch.
C5_FallThrough ==
    [][\A k \in DOMAIN switch.statement.clauses :
        (/\ switch.state = "running"
         /\ switch.statement.clauses[k].label # None
         /\ switch.next_instruction_offset = BodyEnd(k))
        => switch'.next_instruction_offset =
                IF k < Len(switch.statement.clauses) THEN BodyStart(k + 1)
                ELSE SwitchExit]_vars

\* the result of the switch statement when every clause falls through to
\* the next: the statements from the first matching clause (or the default
\* clause) up to the first break are executed
C5_FallThroughResult ==
    switch.state = "returned"
    => \A k \in DOMAIN switch.statement.clauses :
          (/\ switch.statement.clauses[k].label = switch.statement.expression
           /\ switch.statement.clauses[k].statements = <<AssignStatement(1)>>
           /\ k < Len(switch.statement.clauses)
           /\ switch.statement.clauses[k + 1] =
                    SwitchClause(None, <<AssignStatement(2)>>))
          => switch.return_value = Integer(2)

\* ------------------------------------------------------------------------
\* Captured variables
\* ------------------------------------------------------------------------
CaptureInfos(closure) ==
    get_function_prototype(closure.executable, closure.function_prototype_id).capture_infos

\* capture i of closure c is the local `register_id` of the invocation that
\* created c
CapturesLocal(c, i, invocation, register_id) ==
    /\ CaptureInfos(closures[c])[i].capture_is_original
    /\ CaptureInfos(closures[c])[i].id = register_id
    /\ closures[c].invocation = invocation

IsOnCallStack(invocation) ==
    \E k \in DOMAIN call_frames : call_frames[k].invocation = invocation

\* C1: two closures created by the same invocation that capture the same
\* local hold the identical Capture cell, and the value SET_CAPTURE has just
\* written through one of them is the value the other one reads, while the
\* creating invocation runs and after it has returned.
C1_SameInvocationSharesCell ==
    \A c1, c2 \in DOMAIN closures :
        \A i \in DOMAIN closures[c1].captures, j \in DOMAIN closures[c2].captures :
            \A register_id \in RegisterIds :
                (/\ CapturesLocal(c1, i, closures[c1].invocation, register_id)
                 /\ CapturesLocal(c2, j, closures[c1].invocation, register_id))
                => /\ closures[c1].captures[i] = closures[c2].captures[j]
                   /\ (/\ history.last.op = "SET_CAPTURE"
                       /\ history.last.closure = c1
                       /\ history.last.capture_id + 1 = i)
                      => CaptureValue(stack, captures[closures[c2].captures[j]])
                            = history.last.value

\* C1 happens: a closure writes its capture after the invocation that created
\* it and a second closure over the same local has returned
C1_Witness ==
    /\ history.last.op = "SET_CAPTURE"
    /\ ~IsOnCallStack(closures[history.last.closure].invocation)
    /\ \E c2 \in DOMAIN closures :
        /\ c2 # history.last.closure
        /\ closures[c2].invocation = closures[history.last.closure].invocation
        /\ CapturesLocal(c2, 1, closures[c2].invocation, 0)
        /\ CapturesLocal(history.last.closure, 1, closures[c2].invocation, 0)

\* C1 happens while the creating invocation is still running
C1_WitnessRunning ==
    /\ history.last.op = "GET_CAPTURE"
    /\ IsOnCallStack(closures[history.last.closure].invocation)
    /\ \E c2 \in DOMAIN closures :
        /\ c2 # history.last.closure
        /\ closures[c2].invocation = closures[history.last.closure].invocation
        /\ CapturesLocal(c2, 1, closures[c2].invocation, 0)

\* C2: when a call returns, every capture its invocation created is detached
\* and owns the value its local held at that moment (the registers of the
\* returning frame just before they are freed).
C2_DetachedWithValueAtReturn ==
    history.last.op = "RETURN"
    => \A capture_id \in DOMAIN captures :
          captures[capture_id].invocation = history.last.invocation
          => /\ ~captures[capture_id].linked
             /\ captures[capture_id].value
                    = history.last.snapshot[captures[capture_id].register_id + 1]

\* C3: a capture stays linked to its local's register for as long as the
\* invocation that created it is running; returns of nested calls do not
\* detach it.
C3_LinkedWhileCreatorRuns ==
    \A capture_id \in DOMAIN captures :
        \A k \in DOMAIN call_frames :
            call_frames[k].invocation = captures[capture_id].invocation
            => /\ captures[capture_id].linked
               /\ captures[capture_id].pos
                    = call_frames[k].stack_base + captures[capture_id].register_id

\* C4: closures created by different invocations hold different Capture
\* cells for the local they capture.
C4_CellPerInvocation ==
    \A c1, c2 \in DOMAIN closures :
        \A i \in DOMAIN closures[c1].captures, j \in DOMAIN closures[c2].captures :
            (/\ CaptureInfos(closures[c1])[i].capture_is_original
             /\ CaptureInfos(closures[c2])[j].capture_is_original
             /\ closures[c1].invocation # closures[c2].invocation)
            => closures[c1].captures[i] # closures[c2].captures[j]

\* ------------------------------------------------------------------------
\* Calls
\* ------------------------------------------------------------------------
\* the last step called a closure: _execute_call on a CLOSURE, run_script or
\* a require() that loads its module
IsCall == history.last.op \in {"CALL", "RUN", "REQUIRE"}
CalledClosure == closures[history.last.closure]
CalledPrototype ==
    get_function_prototype(CalledClosure.executable, CalledClosure.function_prototype_id)
NumberOfArguments == Len(history.last.arguments)
NumberOfParameters == CalledPrototype.number_of_regular_parameters
                      + CalledPrototype.number_of_default_parameters

\* the last step's call entered the body of the called closure
Entered ==
    /\ IsCall
    /\ error = NoError
    /\ call_frames # <<>>
    /\ Frame.invocation = history.last.invocation

\* C6: a call with K arguments of a closure with R regular and D default
\* parameters raises MissingArgument exactly when K < R and TooManyArguments
\* exactly when the closure is not variadic and K > R + D; the step that
\* raises either changes no register, does not grow the register array and
\* pushes no call frame.
C6_ArityErrors ==
    /\ [](IsCall =>
            /\ (error.kind = "MissingArgument")
                 <=> (NumberOfArguments < CalledPrototype.number_of_regular_parameters)
            /\ (error.kind = "TooManyArguments")
                 <=> (/\ ~CalledPrototype.is_variadic
                      /\ NumberOfArguments > NumberOfParameters))
    /\ [][(error.kind = "none"
            /\ error'.kind \in {"MissingArgument", "TooManyArguments"})
           => (stack' = stack /\ call_frames' = call_frames)]_vars

\* C6 happens: a closure call was refused for too many arguments
C6_Witness ==
    /\ history.last.op = "CALL"
    /\ error.kind = "TooManyArguments"
    /\ NumberOfArguments = NumberOfParameters + 1

\* C6 happens: a closure call was refused for a missing argument
C6_WitnessMissing ==
    /\ history.last.op = "CALL"
    /\ error.kind = "MissingArgument"
    /\ NumberOfArguments + 1 = CalledPrototype.number_of_regular_parameters

\* C7: on entry to the body of an accepted call, parameter slot i holds
\* argument i if one was passed and the closure's default value i - R
\* otherwise, and the slot after the parameters of a variadic closure holds
\* the ARRAY of the remaining arguments, in order; a closure's default values
\* never change after its creation.
C7_ParameterSlots ==
    /\ [](Entered =>
            /\ \A i \in 0 .. NumberOfParameters - 1 :
                  stack[history.last.stack_base + i + 1] =
                    IF i < NumberOfArguments
                    THEN history.last.arguments[i + 1]
                    ELSE CalledClosure.default_arguments
                            [i - CalledPrototype.number_of_regular_parameters + 1]
            /\ CalledPrototype.is_variadic
               => stack[history.last.stack_base + NumberOfParameters + 1] =
                    Array([j \in 1 .. (IF NumberOfArguments > NumberOfParameters
                                       THEN NumberOfArguments - NumberOfParameters
                                       ELSE 0) |->
                            history.last.arguments[NumberOfParameters + j]]))
    /\ [][\A c \in DOMAIN closures :
            closures'[c].default_arguments = closures[c].default_arguments]_vars

\* C7 happens: a call that passes only the regular arguments entered the body
\* of a closure with a default parameter
C7_Witness ==
    /\ Entered
    /\ CalledPrototype.number_of_default_parameters > 0
    /\ NumberOfArguments = CalledPrototype.number_of_regular_parameters

\* C7 happens: a call that passes the optional argument too
C7_WitnessAllPassed ==
    /\ Entered
    /\ CalledPrototype.number_of_default_parameters > 0
    /\ NumberOfArguments = NumberOfParameters
    /\ history.last.arguments[NumberOfArguments]
            # CalledClosure.default_arguments[1]

\* C7 happens: a call of a variadic closure with a rest argument
C7_WitnessVariadic ==
    /\ Entered
    /\ history.last.op = "CALL"
    /\ CalledPrototype.is_variadic
    /\ NumberOfArguments > NumberOfParameters

\* C8: the register array never holds more than max_stack_depth slots; a
\* call whose frame would end above max_stack_depth raises StackOverflow
\* with the source location of the call site, and the step that raises it
\* pushes no call frame and does not grow the register array.
C8_StackBounded ==
    /\ [](Len(stack) <= max_stack_depth)
    /\ []((/\ IsCall
           /\ error.kind \notin {"MissingArgument", "TooManyArguments"}
           /\ history.last.stack_base + CalledPrototype.number_of_registers
                > max_stack_depth)
          => /\ error.kind = "StackOverflow"
             /\ error.source_location =
                    IF history.last.op = "RUN"
                    THEN ScriptLocation(history.last.file)
                    ELSE get_source_location(error.source_location.instruction)
             /\ history.last.op # "RUN"
                => /\ error.source_location.instruction \in CurrentInstructions
                   /\ error.source_location.instruction.op = "CALL"
                   /\ Frame.stack_base + error.source_location.instruction.operand2 + 1
                        = history.last.stack_base)
    /\ [][(error.kind = "none" /\ error'.kind = "StackOverflow")
           => (call_frames' = call_frames /\ Len(stack') = Len(stack))]_vars

\* C8 happens: a call was refused with StackOverflow
C8_Witness ==
    /\ history.last.op = "CALL"
    /\ error.kind = "StackOverflow"
    /\ Len(call_frames) >= 2

\* C8 happens: a require() entry was refused with StackOverflow
C8_WitnessRequire ==
    /\ history.last.op = "REQUIRE"
    /\ error.kind = "StackOverflow"

\* ------------------------------------------------------------------------
\* Modules
\* ------------------------------------------------------------------------
RequireOps == {"REQUIRE", "REQUIRE_CACHED", "REQUIRE_FAILED"}

C9_WitnessSelf ==
    /\ error.kind = "require() failed: circular dependency"
    /\ Len(call_frames) = 1
    /\ call_frames[1].via = "host"
    /\ call_frames[1].file_path = history.last.file

MaxInteger == 2 ^ (IntegerWidth - 1) - 1
MinInteger == -(2 ^ (IntegerWidth - 1))

INT == 1

Programs == {"operators", "convert", "slots", "unary"}

Characters == {"0", "1", "x", "f", " ", "-"}
Strings == UNION {[1 .. n -> Characters] : n \in 0 .. MaxStringLength}

OperatorsInstructions ==
    {Instruction("LOAD_NULL", r, 0, 0, VOID) : r \in 1 .. 2}
    \cup {Instruction("LOAD_BOOLEAN", r, b, 0, VOID) : r \in 1 .. 2, b \in 0 .. 1}
    \cup {Instruction("LOAD_INTEGER", 1, 0, 0, Integer(n)) :
            n \in {0, 1, MaxInteger, MinInteger}}
    \cup {Instruction("LOAD_INTEGER", 2, 0, 0, Integer(n)) : n \in {-1, 0, 1}}
    \cup {Instruction("LOAD_CONSTANT", r, 0, 0, c) :
            r \in 1 .. 2,
            c \in {FloatingPoint(0), FloatingPoint(1), Str(<<"a">>), Str(<<"b">>)}}
    \cup {Instruction(op, 0, 1, 2, VOID) :
            op \in {"EQUAL", "NOT_EQUAL", "ADD", "SUBSTRATE", "MULTIPLY",
                    "DIVIDE", "MODULO"}}

\* the constants that the "convert" program is compiled with, one at a time
ConvertConstants == {Str(chars) : chars \in Strings} \cup {FloatingPoint(1)}

ConvertInstructions(constant) ==
    {Instruction("LOAD_CONSTANT", 1, 0, 0, constant),
     Instruction("LOAD_NULL", 1, 0, 0, VOID),
     Instruction("LOAD_INTEGER", 1, 0, 0, Integer(1)),
     Instruction("CONVERT", 0, 1, INT, VOID)}

SlotsInstructions ==
    {Instruction("LOAD_INTEGER", 1, 0, 0, Integer(n)) : n \in {5, 6}}
    \cup {Instruction("LOAD_INTEGER", 2, 0, 0, Integer(k)) : k \in {0, 1, 2}}
    \cup {Instruction("NEW_ARRAY", 3, 0, 0, VOID),
          Instruction("NEW_STRUCTURE", 3, 0, 0, VOID),
          Instruction("GET_SLOT", 0, 3, 2, VOID),
          Instruction("GET_SLOT", 0, 3, 3, VOID),
          Instruction("GET_SLOT", 0, 3, 0, VOID),
          Instruction("GET_SLOT", 0, 1, 2, VOID),
          Instruction("SET_SLOT", 1, 3, 2, VOID),
          Instruction("CLEAR_SLOT", 0, 3, 2, VOID)}

UnaryInstructions ==
    {Instruction("LOAD_INTEGER", r, 0, 0, Integer(n)) :
        r \in 0 .. 1, n \in {0, 1, MaxInteger, MinInteger}}
    \cup {Instruction("LOAD_CONSTANT", 1, 0, 0, c) : c \in {FloatingPoint(1), Str(<<"a">>)}}
    \cup {Instruction("LOAD_NULL", 1, 0, 0, VOID),
          Instruction("NEGATE", 0, 1, 0, VOID),
          Instruction("BITWISE_NOT", 0, 1, 0, VOID)}

\* the instructions of a program with operation code op
OpsInstructions(program, op) ==
    LET instructions == CASE program = "operators" -> OperatorsInstructions
                          [] program = "unary" -> UnaryInstructions
                          [] program = "convert" -> ConvertInstructions(ops.constant)
                          [] program = "slots" -> SlotsInstructions
    IN {instruction \in instructions : instruction.op = op}

OpsNoInstruction == Instruction("NO", 0, 0, 0, VOID)
NoOpsError == [kind |-> "none", instruction |-> OpsNoInstruction]

OpsInit ==
    /\ InitInterpreter
    /\ switch = NoSwitch
    /\ foreach = NoForeach
    /\ compiler = NoCompiler
    /\ \E program \in Programs :
       \E constant \in IF program = "convert" THEN ConvertConstants ELSE {VOID} :
        ops = [state |-> "running", program |-> program, constant |-> constant,
               registers |-> [r \in 1 .. 4 |-> VOID], heap |-> <<>>, before |-> <<>>,
               error |-> NoOpsError, last |-> OpsNoInstruction]

\* the frame executes `instruction`
OpsExecutes(instruction) ==
    /\ ops.state = "running"
    /\ UNCHANGED <<interpreter_vars, switch, foreach, compiler>>

\* the value of register r
OpsRegister(r) == ops.registers[r + 1]

\* an executor stores value in register r
OpsStore(instruction, r, value) ==
    ops' = [ops EXCEPT !.registers[r + 1] = value, !.last = instruction,
                       !.before = ops.heap]

\* an executor raises: the exception ends the execution of the frame
OpsRaise(instruction, kind) ==
    ops' = [ops EXCEPT !.state = "error", !.last = instruction, !.before = ops.heap,
                       !.error = [kind |-> kind, instruction |-> instruction]]

\* what an operator gives: a value for its destination or an exception
Gives(value) == [error |-> "none", value |-> value]
Raises(kind) == [error |-> kind, value |-> VOID]

OpsResult(instruction, result) ==
    IF result.error = "none"
    THEN OpsStore(instruction, instruction.operand1, result.value)
    ELSE OpsRaise(instruction, result.error)

Numeric == {"INTEGER", "FLOATING_POINT"}

\* _execute_load_null (interpreter.py:176-179)
OpsLoadNull ==
    \E instruction \in OpsInstructions(ops.program, "LOAD_NULL") :
        /\ OpsExecutes(instruction)
        /\ OpsStore(instruction, instruction.operand1, NULL)

\* _execute_load_boolean (interpreter.py:181-184)
OpsLoadBoolean ==
    \E instruction \in OpsInstructions(ops.program, "LOAD_BOOLEAN") :
        /\ OpsExecutes(instruction)
        /\ OpsStore(instruction, instruction.operand1, Boolean(instruction.operand2 # 0))

\* _execute_load_integer (interpreter.py:186-190)
OpsLoadInteger ==
    \E instruction \in OpsInstructions(ops.program, "LOAD_INTEGER") :
        /\ OpsExecutes(instruction)
        /\ OpsStore(instruction, instruction.operand1, instruction.operand4)

\* _execute_load_constant (interpreter.py:192-197)
OpsLoadConstant ==
    \E instruction \in OpsInstructions(ops.program, "LOAD_CONSTANT") :
        /\ OpsExecutes(instruction)
        /\ OpsStore(instruction, instruction.operand1, instruction.operand4)

\* _execute_add (interpreter.py:381-405)
execute_add(value2, value3) ==
    IF value2.type = "STRING"
    THEN IF value3.type # value2.type
         THEN Raises("IncompatibleOperandTypes")
         ELSE Gives(Str(value2.elems \o value3.elems))
    ELSE IF value2.type \notin Numeric THEN Raises("IncompatibleOperandTypes")
    ELSE IF value3.type \notin Numeric THEN Raises("IncompatibleOperandTypes")
    ELSE IF value2.type = value3.type
    THEN Gives(Value(value2.type, value2.data + value3.data, <<>>))
    ELSE Gives(FloatingPoint(value2.data + value3.data))

\* Python's x // y
floor_div(x, y) == IF y > 0 THEN x \div y ELSE (-x) \div (-y)

\* Python's x / y, for the operands of the model: the quotient is exact
true_div(x, y) == CHOOSE q \in (2 * MinInteger) .. (2 * MaxInteger + 2) : q * y = x

\* the lambdas of _execute_substrate (interpreter.py:432) and
\* _execute_multiply (interpreter.py:437)
substrate(value2, value3) == [error |-> "none", data |-> value2.data - value3.data]
multiply(value2, value3) == [error |-> "none", data |-> value2.data * value3.data]

\* f of _execute_divide (interpreter.py:441-448)
divide(value2, value3) ==
    IF value3.data = 0
    THEN [error |-> "DivideByZero", data |-> 0]
    ELSE IF value2.type = "INTEGER" /\ value3.type = "INTEGER"
    THEN [error |-> "none", data |-> floor_div(value2.data, value3.data)]
    ELSE [error |-> "none", data |-> true_div(value2.data, value3.data)]

\* the lambda of _execute_modulo (interpreter.py:455): Python's x % y, which
\* raises the Python exception ZeroDivisionError when y is zero
modulo(value2, value3) ==
    IF value3.data = 0
    THEN [error |-> "ZeroDivisionError", data |-> 0]
    ELSE [error |-> "none", data |-> value2.data - value3.data * floor_div(value2.data, value3.data)]

\* _execute_instruction1 (interpreter.py:407-427); f names the function that
\* the executor passes, which gives the payload of the result or the exception
\* it raises
instruction1(f, value2, value3) ==
    IF value2.type \notin Numeric THEN Raises("IncompatibleOperandTypes")
    ELSE IF value3.type \notin Numeric THEN Raises("IncompatibleOperandTypes")
    ELSE LET result == CASE f = "substrate" -> substrate(value2, value3)
                         [] f = "multiply" -> multiply(value2, value3)
                         [] f = "divide" -> divide(value2, value3)
                         [] f = "modulo" -> modulo(value2, value3) IN
         IF result.error # "none" THEN Raises(result.error)
         ELSE IF value2.type = value3.type
         THEN Gives(Value(value2.type, result.data, <<>>))
         ELSE Gives(FloatingPoint(result.data))

OpsAdd ==
    \E instruction \in OpsInstructions(ops.program, "ADD") :
        /\ OpsExecutes(instruction)
        /\ OpsResult(instruction, execute_add(OpsRegister(instruction.operand2),
                                              OpsRegister(instruction.operand3)))

\* _execute_substrate (interpreter.py:429-432)
OpsSubstrate ==
    \E instruction \in OpsInstructions(ops.program, "SUBSTRATE") :
        /\ OpsExecutes(instruction)
        /\ OpsResult(instruction, instruction1("substrate", OpsRegister(instruction.operand2),
                                               OpsRegister(instruction.operand3)))

\* _execute_multiply (interpreter.py:434-437)
OpsMultiply ==
    \E instruction \in OpsInstructions(ops.program, "MULTIPLY") :
        /\ OpsExecutes(instruction)
        /\ OpsResult(instruction, instruction1("multiply", OpsRegister(instruction.operand2),
                                               OpsRegister(instruction.operand3)))

\* _execute_divide (interpreter.py:439-450)
OpsDivide ==
    \E instruction \in OpsInstructions(ops.program, "DIVIDE") :
        /\ OpsExecutes(instruction)
        /\ OpsResult(instruction, instruction1("divide", OpsRegister(instruction.operand2),
                                               OpsRegister(instruction.operand3)))

\* _execute_modulo (interpreter.py:452-455)
OpsModulo ==
    \E instruction \in OpsInstructions(ops.program, "MODULO") :
        /\ OpsExecutes(instruction)
        /\ OpsResult(instruction, instruction1("modulo", OpsRegister(instruction.operand2),
                                               OpsRegister(instruction.operand3)))

\* the payloads that the frame computes with: Python's integers have no
\* width, and the frame stops at twice the range of an INTEGER
Computable(value) ==
    value.type = "INTEGER" => value.data \in 2 * MinInteger .. 2 * MaxInteger + 1

\* _execute_negate (interpreter.py:370-379): value1 and value2 are both the
\* register of operand1
OpsNegate ==
    \E instruction \in OpsInstructions(ops.program, "NEGATE") :
        /\ OpsExecutes(instruction)
        /\ Computable(OpsRegister(instruction.operand1))
        /\ LET value2 == OpsRegister(instruction.operand1)
           IN OpsResult(instruction,
                        IF value2.type \notin Numeric THEN Raises("IncompatibleOperandTypes")
                        ELSE Gives(Value(value2.type, -value2.data, <<>>)))

\* _execute_bitwise_not (interpreter.py:525-534): value1 and value2 are both
\* the register of operand1; Python's ~x is -x - 1
OpsBitwiseNot ==
    \E instruction \in OpsInstructions(ops.program, "BITWISE_NOT") :
        /\ OpsExecutes(instruction)
        /\ Computable(OpsRegister(instruction.operand1))
        /\ LET value2 == OpsRegister(instruction.operand1)
           IN OpsResult(instruction,
                        IF value2.type # "INTEGER" THEN Raises("IncompatibleOperandTypes")
                        ELSE Gives(Integer(-value2.data - 1)))

\* _execute_instruction4 (interpreter.py:546-568) with the checks of its
\* operands; f is applied by the caller
execute_instruction4(value2, value3, negate) ==
    IF value2.type = "VOID" THEN Raises("IncompatibleOperandTypes")
    ELSE IF value3.type = "VOID" THEN Raises("IncompatibleOperandTypes")
    ELSE Gives(Boolean(IF negate THEN ~instruction4(value2, value3)
                       ELSE instruction4(value2, value3)))

\* _execute_equal (interpreter.py:570-573)
OpsEqual ==
    \E instruction \in OpsInstructions(ops.program, "EQUAL") :
        /\ OpsExecutes(instruction)
        /\ OpsResult(instruction, execute_instruction4(OpsRegister(instruction.operand2),
                                                       OpsRegister(instruction.operand3),
                                                       FALSE))

\* _execute_not_equal (interpreter.py:575-578)
OpsNotEqual ==
    \E instruction \in OpsInstructions(ops.program, "NOT_EQUAL") :
        /\ OpsExecutes(instruction)
        /\ OpsResult(instruction, execute_instruction4(OpsRegister(instruction.operand2),
                                                       OpsRegister(instruction.operand3),
                                                       TRUE))

\* ---- CONVERT ----
DecimalDigits == {"0", "1"}
HexDigits == {"0", "1", "f"}

\* the value of a digit
DigitValue(c) == IF c = "0" THEN 0 ELSE IF c = "1" THEN 1 ELSE 15

\* the number that the digits denote in the given base
RECURSIVE NumberOf(_, _)
NumberOf(digits, base) ==
    IF digits = <<>> THEN 0
    ELSE NumberOf(SubSeq(digits, 1, Len(digits) - 1), base) * base
         + DigitValue(digits[Len(digits)])

\* Python's str.strip, which int(str) applies first
RECURSIVE strip(_)
strip(chars) ==
    IF chars # <<>> /\ Head(chars) = " " THEN strip(Tail(chars))
    ELSE IF chars # <<>> /\ chars[Len(chars)] = " "
    THEN strip(SubSeq(chars, 1, Len(chars) - 1))
    ELSE chars

\* Python's int(str) of interpreter.py:762, base 10: surrounding blanks, an
\* optional sign and decimal digits; ok is FALSE where int raises ValueError
python_int(chars) ==
    LET stripped == strip(chars)
        negative == stripped # <<>> /\ Head(stripped) = "-"
        digits == IF negative THEN Tail(stripped) ELSE stripped
    IN IF digits # <<>> /\ \A i \in 1 .. Len(digits) : digits[i] \in DecimalDigits
       THEN [ok |-> TRUE,
             integer |-> IF negative THEN -NumberOf(digits, 10) ELSE NumberOf(digits, 10)]
       ELSE [ok |-> FALSE, integer |-> 0]

\* _conversion_int (interpreter.py:754-770); a FALSE return is the exception
\* that _execute_convert raises for it
conversion_int(in_value) ==
    IF in_value.type = "INTEGER" THEN Gives(in_value)
    ELSE IF in_value.type = "FLOATING_POINT" THEN Gives(Integer(in_value.data))
    ELSE IF in_value.type = "STRING"
    THEN IF python_int(in_value.elems).ok
         THEN Gives(Integer(python_int(in_value.elems).integer))
         ELSE Gives(VOID)
    ELSE Raises("IncompatibleOperandTypes")

\* _execute_convert (interpreter.py:217-225)
OpsConvert ==
    \E instruction \in OpsInstructions(ops.program, "CONVERT") :
        /\ OpsExecutes(instruction)
        /\ instruction.operand3 = INT
        /\ OpsResult(instruction, conversion_int(OpsRegister(instruction.operand2)))

\* ---- NEW_ARRAY, NEW_STRUCTURE, SET_SLOT, CLEAR_SLOT ----
\* The heap holds the lists and dicts that ARRAY and STRUCTURE values refer
\* to.  Only r3 refers to a container, so that the one it referred to before
\* a NEW_ARRAY or NEW_STRUCTURE is freed.  An element of a container is a Value object: one of its own, or the
\* very object of a register (which a write to the register then changes).
\* The keys of a STRUCTURE are kept in insertion order, as a dict keeps them.
Container(type_, keys, elements) == [type |-> type_, keys |-> keys, elements |-> elements]
Own(value) == [own |-> TRUE, register |-> 0, value |-> value]
Shared(r) == [own |-> FALSE, register |-> r, value |-> VOID]

\* the value that an element holds, given the registers
ElementValue(registers, element) ==
    IF element.own THEN element.value ELSE registers[element.register + 1]

\* Value.copy (value.py:128-129) of the Value object of register r
copy_shared(r) == Shared(r)
copy(r) == Own(OpsRegister(r))

\* array.append(..) and array[element_index] = .. (interpreter.py:323-326)
set_element(array, element_index, element) ==
    IF element_index = Len(array) THEN Append(array, element)
    ELSE [array EXCEPT ![element_index + 1] = element]

\* del array[element_index:] (interpreter.py:360)
clear_elements_one(array, element_index) ==
    [i \in 1 .. Len(array) - 1 |-> IF i <= element_index THEN array[i] ELSE array[i + 1]]
clear_elements(array, element_index) == SubSeq(array, 1, element_index)

\* the position of field_name among the keys of a dict, 0 if it is not a key
field_index(keys, field_name) ==
    IF \E i \in 1 .. Len(keys) : keys[i] = field_name
    THEN CHOOSE i \in 1 .. Len(keys) : keys[i] = field_name
    ELSE 0

\* structure[field_name] = .. (interpreter.py:338)
set_field(structure, field_name, element) ==
    IF field_index(structure.keys, field_name) = 0
    THEN [structure EXCEPT !.keys = Append(@, field_name),
                           !.elements = Append(@, element)]
    ELSE [structure EXCEPT !.elements[field_index(structure.keys, field_name)] = element]

\* structure.pop(field_name, None) (interpreter.py:368)
pop_field(structure, field_name) ==
    LET keep == {i \in 1 .. Len(structure.keys) : structure.keys[i] # field_name}
        at(i) == CHOOSE j \in keep : Cardinality({k \in keep : k < j}) = i - 1
    IN [structure EXCEPT !.keys = [i \in 1 .. Cardinality(keep) |-> structure.keys[at(i)]],
                         !.elements = [i \in 1 .. Cardinality(keep) |->
                                            structure.elements[at(i)]]]

\* an executor replaces container `id` of the heap
OpsWrite(instruction, id, container) ==
    ops' = [ops EXCEPT !.heap[id] = container, !.last = instruction,
                       !.before = ops.heap]

\* _execute_new_array (interpreter.py:653-656)
OpsNewArray ==
    \E instruction \in OpsInstructions(ops.program, "NEW_ARRAY") :
        /\ OpsExecutes(instruction)
        /\ ops' = [ops EXCEPT !.heap = <<Container("ARRAY", <<>>, <<>>)>>,
                              !.registers[instruction.operand1 + 1] = Reference("ARRAY", 1),
                              !.last = instruction, !.before = ops.heap]

\* _execute_new_structure (interpreter.py:658-661)
OpsNewStructure ==
    \E instruction \in OpsInstructions(ops.program, "NEW_STRUCTURE") :
        /\ OpsExecutes(instruction)
        /\ ops' = [ops EXCEPT !.heap = <<Container("STRUCTURE", <<>>, <<>>)>>,
                              !.registers[instruction.operand1 + 1] = Reference("STRUCTURE", 1),
                              !.last = instruction, !.before = ops.heap]

\* _execute_get_slot (interpreter.py:251-296).  structure.get(field_name)
\* hashes the payload of the key: the list of an ARRAY and the dict of a
\* STRUCTURE are unhashable, and Python raises TypeError for them.
OpsGetSlot ==
    \E instruction \in OpsInstructions(ops.program, "GET_SLOT") :
        /\ OpsExecutes(instruction)
        /\ LET container == OpsRegister(instruction.operand2)
               key == OpsRegister(instruction.operand3)
           IN OpsResult(instruction,
                IF container.type \notin {"STRING", "ARRAY", "STRUCTURE"}
                THEN Raises("IncompatibleOperandTypes")
                ELSE IF container.type \in {"STRING", "ARRAY"}
                THEN IF key.type # "INTEGER" THEN Raises("IncompatibleOperandTypes")
                     ELSE IF container.type = "STRING"
                     THEN IF key.data \in 0 .. Len(container.elems) - 1
                          THEN Gives(Str(<<container.elems[key.data + 1]>>))
                          ELSE Gives(VOID)
                     ELSE LET array == ops.heap[container.data].elements
                          IN IF key.data \in 0 .. Len(array) - 1
                             THEN Gives(ElementValue(ops.registers, array[key.data + 1]))
                             ELSE Gives(VOID)
                ELSE IF key.type = "VOID" THEN Raises("IncompatibleOperandTypes")
                ELSE IF key.type \in {"ARRAY", "STRUCTURE"} THEN Raises("TypeError")
                ELSE LET structure == ops.heap[container.data]
                         field == field_index(structure.keys, key)
                     IN IF field = 0 THEN Gives(VOID)
                        ELSE Gives(ElementValue(ops.registers, structure.elements[field])))

\* _execute_set_slot (interpreter.py:298-338); the keys of the model are
\* INTEGERs, so that the key of a field is the Value itself
OpsSetSlot ==
    \E instruction \in OpsInstructions(ops.program, "SET_SLOT") :
        /\ OpsExecutes(instruction)
        /\ LET value == OpsRegister(instruction.operand1)
               container == OpsRegister(instruction.operand2)
               key == OpsRegister(instruction.operand3)
           IN IF container.type \notin {"ARRAY", "STRUCTURE"}
              THEN OpsRaise(instruction, "IncompatibleOperandTypes")
              ELSE IF container.type = "ARRAY"
              THEN IF key.type # "INTEGER"
                   THEN OpsRaise(instruction, "IncompatibleOperandTypes")
                   ELSE IF value.type = "VOID"
                   THEN OpsRaise(instruction, "IncompatibleOperandTypes")
                   ELSE LET array == ops.heap[container.data].elements
                            element_index == key.data
                        IN IF element_index \notin 0 .. Len(array)
                           THEN OpsRaise(instruction, "IndexOutOfRange")
                           ELSE /\ element_index = Len(array) => Len(array) < MaxLength
                                /\ OpsWrite(instruction, container.data,
                                            [ops.heap[container.data] EXCEPT !.elements =
                                                set_element(array, element_index,
                                                            copy(instruction.operand1))])
              ELSE IF key.type \notin {"NULL", "BOOLEAN", "INTEGER", "FLOATING_POINT", "STRING"}
                   THEN OpsRaise(instruction, "IncompatibleOperandTypes")
                   ELSE IF value.type = "VOID"
                   THEN OpsRaise(instruction, "IncompatibleOperandTypes")
                   ELSE LET structure == ops.heap[container.data]
                            field_name == key
                        IN /\ field_index(structure.keys, field_name) = 0
                                => Len(structure.keys) < MaxLength
                           /\ OpsWrite(instruction, container.data,
                                       set_field(structure, field_name,
                                                 copy(instruction.operand1)))

\* _execute_clear_slot (interpreter.py:340-368)
OpsClearSlot ==
    \E instruction \in OpsInstructions(ops.program, "CLEAR_SLOT") :
        /\ OpsExecutes(instruction)
        /\ LET container == OpsRegister(instruction.operand2)
               key == OpsRegister(instruction.operand3)
           IN IF container.type \notin {"ARRAY", "STRUCTURE"}
              THEN OpsRaise(instruction, "IncompatibleOperandTypes")
              ELSE IF container.type = "ARRAY"
              THEN IF key.type # "INTEGER"
                   THEN OpsRaise(instruction, "IncompatibleOperandTypes")
                   ELSE LET array == ops.heap[container.data].elements
                            element_index == key.data
                        IN IF element_index \notin 0 .. Len(array)
                           THEN OpsRaise(instruction, "IndexOutOfRange")
                           ELSE OpsWrite(instruction, container.data,
                                         [ops.heap[container.data] EXCEPT !.elements =
                                            clear_elements(array, element_index)])
              ELSE IF key.type = "VOID"
                   THEN OpsRaise(instruction, "IncompatibleOperandTypes")
                   ELSE OpsWrite(instruction, container.data,
                                 pop_field(ops.heap[container.data], key))

OpsNext ==
    \/ OpsLoadNull
    \/ OpsLoadBoolean
    \/ OpsLoadInteger
    \/ OpsLoadConstant
    \/ OpsAdd
    \/ OpsSubstrate
    \/ OpsMultiply
    \/ OpsDivide
    \/ OpsModulo
    \/ OpsNegate
    \/ OpsBitwiseNot
    \/ OpsEqual
    \/ OpsNotEqual
    \/ OpsConvert
    \/ OpsNewArray
    \/ OpsNewStructure
    \/ OpsGetSlot
    \/ OpsSetSlot
    \/ OpsClearSlot

OpsSpec == OpsInit /\ [][OpsNext]_vars

\* ------------------------------------------------------------------------
\* Claims about the operators, the conversions and the slots
\* ------------------------------------------------------------------------
Scalars == {"NULL", "BOOLEAN", "INTEGER", "FLOATING_POINT", "STRING"}

\* the frame has just executed, without an exception, an instruction with one
\* of the operation codes
OpsExecuted(operation_codes) ==
    /\ ops.state = "running"
    /\ ops.last.op \in operation_codes

\* C11: EQUAL on two operands of the same scalar kind (NULL, BOOLEAN, INTEGER,
\* FLOATING_POINT, STRING) gives true exactly when their payloads are equal,
\* and NOT_EQUAL gives the negation.  The code gives false for true == true
\* (a BOOLEAN falls into the last branch of _execute_instruction4), so that
\* TLC finds this statement of the claim violated.
C11_EqualSameKind ==
    (/\ OpsExecuted({"EQUAL", "NOT_EQUAL"})
     /\ OpsRegister(1).type \in Scalars
     /\ OpsRegister(1).type = OpsRegister(2).type)
    => OpsRegister(0) = Boolean((OpsRegister(1) = OpsRegister(2)) <=> (ops.last.op = "EQUAL"))

\* C12: EQUAL on two non-VOID operands of different kinds gives false, unless
\* they are an INTEGER and a FLOATING_POINT of the same numeric value, and
\* NOT_EQUAL gives the negation.  The code gives true for null == 0 and for
\* 1 == true (_execute_instruction4 compares value2.type with itself), so
\* that TLC finds this statement of the claim violated.
C12_EqualDifferentKinds ==
    (/\ OpsExecuted({"EQUAL", "NOT_EQUAL"})
     /\ OpsRegister(1).type # "VOID"
     /\ OpsRegister(2).type # "VOID"
     /\ OpsRegister(1).type # OpsRegister(2).type)
    => OpsRegister(0) = Boolean((/\ OpsRegister(1).type \in Numeric
                                 /\ OpsRegister(2).type \in Numeric
                                 /\ OpsRegister(1).data = OpsRegister(2).data)
                                <=> (ops.last.op = "EQUAL"))

\* the values of the elements of the container of heap `heap`, in order
ElementsOf(registers, heap) ==
    [i \in 1 .. Len(heap[1].elements) |-> ElementValue(registers, heap[1].elements[i])]

\* C14: SET_SLOT on an array of length n with index n appends: the length
\* becomes n + 1 and the elements 0 .. n-1 are unchanged.  CLEAR_SLOT on an
\* array of length n with an index i in [0, n) truncates: the length becomes
\* exactly i and the elements 0 .. i-1 are unchanged.
C14_SetAndClearSlot ==
    LET was == ElementsOf(ops.registers, ops.before)
        is == ElementsOf(ops.registers, ops.heap)
        index == OpsRegister(2).data
    IN /\ (/\ OpsExecuted({"SET_SLOT"})
           /\ OpsRegister(3).type = "ARRAY"
           /\ index = Len(was))
          => /\ Len(is) = Len(was) + 1
             /\ SubSeq(is, 1, Len(was)) = was
       /\ (/\ OpsExecuted({"CLEAR_SLOT"})
           /\ OpsRegister(3).type = "ARRAY"
           /\ index \in 0 .. Len(was) - 1)
          => /\ Len(is) = index
             /\ is = SubSeq(was, 1, index)

\* an array of two elements has been truncated to its first element
C14_Witness ==
    /\ OpsExecuted({"CLEAR_SLOT"})
    /\ OpsRegister(3).type = "ARRAY"
    /\ OpsRegister(2) = Integer(1)
    /\ Len(ops.before[1].elements) = 2
    /\ Len(ops.heap[1].elements) = 1

\* C15: SET_SLOT stores a copy of the value.  A later write to the source
\* register leaves the stored element (and every other element) unchanged,
\* and the write to the element leaves the source register unchanged.
C15_SetSlotStoresCopy ==
    [][(/\ ops.state = "running"
        /\ ops'.state = "running"
        /\ ops.heap # <<>>)
       => /\ ops'.last.op = "LOAD_INTEGER"
                => ElementsOf(ops'.registers, ops'.heap) = ElementsOf(ops.registers, ops.heap)
          /\ ops'.last.op = "SET_SLOT"
                => /\ ops'.registers = ops.registers
                   /\ \E i \in 1 .. Len(ops'.heap[1].elements) :
                        ElementValue(ops'.registers, ops'.heap[1].elements[i])
                            = ops.registers[2]]_vars

\* the source register has been written after its value was stored
C15_Witness ==
    /\ OpsExecuted({"LOAD_INTEGER"})
    /\ ops.last.operand1 = 1
    /\ OpsRegister(1) = Integer(6)
    /\ ops.heap # <<>>
    /\ \E i \in 1 .. Len(ops.heap[1].elements) :
            ElementValue(ops.registers, ops.heap[1].elements[i]) = Integer(5)

\* the integer of IntegerWidth bits that n wraps to in two's complement
Wrap(n) == ((n - MinInteger) % (2 ^ IntegerWidth)) + MinInteger

\* C17: ADD, SUBTRACT and MULTIPLY on two INTEGERs give the exact result
\* wrapped to the width of an INTEGER in two's complement, and every INTEGER
\* in a register is in [MinInteger, MaxInteger].  The code computes with
\* Python's unbounded integers and never wraps, so that TLC finds this
\* statement of the claim violated.
C17_IntegerWraps ==
    /\ (/\ OpsExecuted({"ADD", "SUBSTRATE", "MULTIPLY"})
        /\ OpsRegister(1).type = "INTEGER"
        /\ OpsRegister(2).type = "INTEGER")
       => OpsRegister(0) =
            Integer(Wrap(CASE ops.last.op = "ADD" -> OpsRegister(1).data + OpsRegister(2).data
                           [] ops.last.op = "SUBSTRATE" ->
                                OpsRegister(1).data - OpsRegister(2).data
                           [] ops.last.op = "MULTIPLY" ->
                                OpsRegister(1).data * OpsRegister(2).data))
    /\ ops.program = "operators"
       => \A r \in 0 .. 3 : OpsRegister(r).type = "INTEGER"
                                => OpsRegister(r).data \in MinInteger .. MaxInteger

\* C18: DIVIDE and MODULO with numeric operands and a zero right operand
\* (INTEGER 0 or FLOATING_POINT 0.0) stop with DivideByZero, which carries the
\* source location of the instruction, and leave the destination (and every
\* register) unchanged; no other failure comes of a zero divisor.  The code
\* lets MODULO raise Python's ZeroDivisionError, so that TLC finds this
\* statement of the claim violated.
C18_DivideByZero ==
    [][(/\ ops.state = "running"
        /\ ops'.last.op \in {"DIVIDE", "MODULO"}
        /\ ops.registers[2].type \in Numeric
        /\ ops.registers[3].type \in Numeric
        /\ ops.registers[3].data = 0)
       => /\ ops'.state = "error"
          /\ ops'.error = [kind |-> "DivideByZero", instruction |-> ops'.last]
          /\ ops'.registers = ops.registers]_vars

\* C24: unary - and ~ applied to an operand held in a register x put into the
\* result register the arithmetic negation / the bitwise complement of the
\* value of x and leave x unchanged: NEGATE and BITWISE_NOT read their source
\* from operand2 and write only operand1.  The code reads the source from
\* operand1 (the result register), so that TLC finds this statement of the
\* claim violated.
C24_UnaryReadsOperand2 ==
    [][(/\ ops.state = "running"
        /\ ops'.last.op \in {"NEGATE", "BITWISE_NOT"}
        /\ ops.registers[ops'.last.operand2 + 1].type = "INTEGER")
       => LET x == ops.registers[ops'.last.operand2 + 1].data
          IN /\ ops'.state = "running"
             /\ ops'.registers =
                    [ops.registers EXCEPT ![ops'.last.operand1 + 1] =
                        Integer(IF ops'.last.op = "NEGATE" THEN -x ELSE -x - 1)]]_vars

\* C28: GET_SLOT raises IncompatibleOperandTypes for every combination of a
\* container and a key other than a STRING with an INTEGER key, an ARRAY with
\* an INTEGER key and a STRUCTURE with a scalar key; a STRUCTURE indexed by an
\* ARRAY or a STRUCTURE raises this error and fails in no other way.  The
\* code checks the key of a STRUCTURE against VOID only, so that TLC finds
\* this statement of the claim violated.
C28_GetSlotRejects ==
    [][(/\ ops.state = "running"
        /\ ops'.last.op = "GET_SLOT"
        /\ LET container == ops.registers[ops'.last.operand2 + 1]
               key == ops.registers[ops'.last.operand3 + 1]
           IN ~ \/ container.type \in {"STRING", "ARRAY"} /\ key.type = "INTEGER"
                \/ container.type = "STRUCTURE" /\ key.type \in Scalars)
       => /\ ops'.state = "error"
          /\ ops'.error = [kind |-> "IncompatibleOperandTypes", instruction |-> ops'.last]]_vars

\* a decimal literal: decimal digits
IsDecimalLiteral(chars) ==
    /\ chars # <<>>
    /\ \A i \in 1 .. Len(chars) : chars[i] \in DecimalDigits

\* a hexadecimal literal: 0x and hexadecimal digits
IsHexLiteral(chars) ==
    /\ Len(chars) >= 3
    /\ chars[1] = "0"
    /\ chars[2] = "x"
    /\ \A i \in 3 .. Len(chars) : chars[i] \in HexDigits

\* C19: int(s) of a STRING s gives the INTEGER that s denotes when s is a
\* decimal literal or a 0x hexadecimal literal, and VOID, without an error,
\* for every other string.  The code gives VOID for a hexadecimal literal and
\* an INTEGER for " 1" and "-1", so that TLC finds this statement of the
\* claim violated.
C19_IntOfString ==
    (/\ ops.last.op = "CONVERT"
     /\ OpsRegister(1).type = "STRING")
    => /\ ops.state = "running"
       /\ OpsRegister(0) =
            IF IsDecimalLiteral(OpsRegister(1).elems)
            THEN Integer(NumberOf(OpsRegister(1).elems, 10))
            ELSE IF IsHexLiteral(OpsRegister(1).elems)
            THEN Integer(NumberOf(SubSeq(OpsRegister(1).elems, 3,
                                         Len(OpsRegister(1).elems)), 16))
            ELSE VOID

\* ------------------------------------------------------------------------
\* The foreach statement (src/compiler/bytecode_generator.py, src/vm/value.py)
\* ------------------------------------------------------------------------
\* The compiled function is
\*     (c) { foreach (k, v : c) { <body> } }
\* where the statements of the body are `v = k;` and `continue;`.  c is
\* register 0, k register 1, v register 2 and the iterator the temporary
\* register 3; the implicit return uses register 1.  The elements of an array
\* and the fields of a structure are in the elems of its Value.
Structure(fields) == Value("STRUCTURE", 0, fields)
Field(key, value) == [key |-> key, value |-> value]
IteratorValue == Value("ITERATOR", 0, <<>>)
ContinueStatement == [type |-> "continue", data |-> 0]
MoveStatement == [type |-> "move", data |-> 0]
ForeachStatement(container, body) == [container |-> container, body |-> body]

\* visit_continue_statement (bytecode_generator.py:108-115)
visit_continue_statement(g) ==
    [add_instruction(g, Instruction("JUMP", 0, 0, 0, 0)) EXCEPT
        !.continue_instruction_offsets = Append(@, get_next_instruction_offset(g))]

\* the statement `v = k;`: visit_binary_expression emits nothing for the
\* operator and visit_nullary_expression moves the target, k, to v
\* (bytecode_generator.py:715-716, 731-732, 490-501)
visit_move_statement(g) == add_instruction(g, Instruction("MOVE", 2, 1, 0, 0))

\* statement.body.accept_visit (bytecode_generator.py:408), for a body whose
\* statements declare no local
VisitBody(g, statements) == VisitStatements(g, statements)

\* visit_foreach_statement (bytecode_generator.py:375-431); the container is
\* the local c, register 0.  The target that is pushed for the iterator is
\* never popped.
visit_foreach_statement(g, statement) ==
    LET g1 == enter_block_scope(g)
        register_id1 == g1.next_register_id
        g2 == create_local_variable(g1)
        register_id2 == g2.next_register_id
        g3 == push_target(create_local_variable(g2), <<0>>)
        g4 == push_target(pop_target(g3), <<>>)
        g5 == peek_target(emit(g4, Instruction("NEW_ITERATOR", Top(g4), Top(g3), 0, 0)))
        register_id3 == Top(g5)
        g6 == enter_loop(g5)
        label1 == get_next_instruction_offset(g6)
        g7 == IF Failed(g6) THEN g6
              ELSE [add_instruction(g6, Instruction("JUMP_IF_FALSE", register_id3, 0, 0, 0))
                        EXCEPT !.break_instruction_offsets = Append(@, label1)]
        g8 == emit(g7, Instruction("ITERATE", register_id1, register_id2, register_id3, 0))
        \* after the body (bytecode_generator.py:410-431)
        leave(g9) ==
            LET g10 == emit(g9, Instruction("JUMP", 0, 0, 0, label1))
                label2 == get_next_instruction_offset(g10)
                g11 == SetInstructions(g10, g10.break_instruction_offsets, label2)
                g12 == SetInstructions(g11, g11.continue_instruction_offsets, label1)
            IN  leave_block_scope(leave_loop(g12, g5))
    IN  leave(VisitBody(g8, statement.body))

\* the instructions of the function around the foreach statement, with the
\* implicit return of _create_function_prototype (bytecode_generator.py:891-906)
CompileForeach(statement) ==
    add_instruction(add_instruction(visit_foreach_statement(Generator(1), statement),
                                    Instruction("LOAD_VOID", 1, 0, 0, 0)),
                    Instruction("RETURN", 1, 0, 0, 0)).instructions

\* the bodies of the loop
ForeachBodies ==
    UNION {[1 .. m -> {MoveStatement, ContinueStatement}] : m \in 0 .. MaxStatements}

\* the containers: the arrays of at most MaxLength elements and the structures
\* of at most MaxLength fields, with the keys in each order of insertion
ForeachElements == {Integer(5), Integer(6)}
ForeachKeys == {NULL, Integer(0), Str(<<"a">>)}
ForeachContainers ==
    UNION {{Array(elems) : elems \in [1 .. n -> ForeachElements]}
           \cup {Structure([i \in 1 .. n |-> Field(keys[i], elems[i])]) :
                    keys \in {f \in [1 .. n -> ForeachKeys] :
                                \A i, j \in 1 .. n : f[i] = f[j] => i = j},
                    elems \in [1 .. n -> ForeachElements]} :
           n \in 0 .. MaxLength}

NoIterator == [impl |-> <<>>, buffer |-> <<>>]

ForeachInit ==
    /\ InitInterpreter
    /\ switch = NoSwitch
    /\ ops = NoOps
    /\ compiler = NoCompiler
    /\ \E container \in ForeachContainers, body \in ForeachBodies :
        foreach = [state |-> "parsed",
                   statement |-> ForeachStatement(container, body),
                   instructions |-> <<>>,
                   registers |-> [r \in 1 .. 4 |-> IF r = 1 THEN container ELSE VOID],
                   next_instruction_offset |-> 0,
                   iterator |-> NoIterator,
                   trace |-> <<>>,
                   source_location |-> <<>>,
                   return_value |-> VOID]

\* BytecodeGenerator.get_executable (bytecode_generator.py:858-861) compiles
\* the function; the interpreter then runs it
ForeachGetExecutable ==
    /\ foreach.state = "parsed"
    /\ foreach' = [foreach EXCEPT !.state = "running",
                                  !.instructions = CompileForeach(foreach.statement)]
    /\ UNCHANGED <<interpreter_vars, switch, ops, compiler>>

\* _execute_instructions (interpreter.py:151-163): the instruction to execute
ForeachInstruction == foreach.instructions[foreach.next_instruction_offset + 1]

ForeachExecutes(op) ==
    /\ foreach.state = "running"
    /\ ForeachInstruction.op = op
    /\ UNCHANGED <<interpreter_vars, switch, ops, compiler>>

ForeachRegister(r) == foreach.registers[r + 1]

\* an exception ends the execution of the frame; source_location holds the
\* instruction offsets that were passed to _get_source_location
\* (interpreter.py:815-817) for the error
ForeachRaiseAt(kind, instruction_offsets) ==
    foreach' = [foreach EXCEPT !.state = kind, !.source_location = instruction_offsets]

\* the executors that leave their parameter instruction_offset as it is
ForeachRaise(kind) == ForeachRaiseAt(kind, <<foreach.next_instruction_offset>>)

\* Value.get_elements (value.py:142-151): the pairs that the generator yields
get_elements_from_one(value) ==
    [i \in 1 .. Len(value.elems) |-> <<Integer(i), value.elems[i]>>]
get_elements(value) ==
    [i \in 1 .. Len(value.elems) |-> <<Integer(i - 1), value.elems[i]>>]

\* Value.get_fields (value.py:153-163): the key is made a Value of the type
\* of its data again
get_fields(value) ==
    [i \in 1 .. Len(value.elems) |->
        <<Value(value.elems[i].key.type, value.elems[i].key.data, value.elems[i].key.elems),
          value.elems[i].value>>]

\* _execute_new_iterator (interpreter.py:709-722), Iterator.__init__
\* (value.py:79-81)
ForeachNewIterator ==
    /\ ForeachExecutes("NEW_ITERATOR")
    /\ LET value2 == ForeachRegister(ForeachInstruction.operand2) IN
       IF value2.type \notin {"ARRAY", "STRUCTURE"}
       THEN ForeachRaise("IncompatibleOperandTypes")
       ELSE foreach' = [foreach EXCEPT
                !.iterator = [impl |-> IF value2.type = "ARRAY" THEN get_elements(value2)
                                       ELSE get_fields(value2),
                              buffer |-> <<>>],
                !.registers[ForeachInstruction.operand1 + 1] = IteratorValue,
                !.next_instruction_offset = @ + 1]

\* Iterator.__bool__ (value.py:83-91): the iterator after the call
iterator_bool(iterator) ==
    IF iterator.impl = <<>> THEN iterator
    ELSE [impl |-> Tail(iterator.impl),
          buffer |-> iterator.buffer \o <<Head(iterator.impl)[1], Head(iterator.impl)[2]>>]

\* _execute_jump_if_false (interpreter.py:648-651), _execute_instruction6
\* (interpreter.py:628-641), which assigns operand4 to instruction_offset
\* before it tests the type of the value; bool(value) of an ITERATOR is Iterator.__bool__,
\* which is true when the generator yields a pair
ForeachJumpIfFalse ==
    /\ ForeachExecutes("JUMP_IF_FALSE")
    /\ LET value == ForeachRegister(ForeachInstruction.operand1)
           truth == IF value.type = "ITERATOR" THEN foreach.iterator.impl # <<>>
                    ELSE bool(value)
       IN IF value.type = "VOID"
          THEN ForeachRaiseAt("IncompatibleOperandTypes", <<ForeachInstruction.operand4>>)
          ELSE foreach' = [foreach EXCEPT
                !.iterator = IF value.type = "ITERATOR" THEN iterator_bool(@) ELSE @,
                !.next_instruction_offset =
                    IF ~truth THEN ForeachInstruction.operand4 ELSE @ + 1]

\* _execute_iterate (interpreter.py:724-736), Iterator.__next__
\* (value.py:93-99): the value, then the key, are popped from the buffer; the
\* trace records the pair that the body is entered with
ForeachIterate ==
    /\ ForeachExecutes("ITERATE")
    /\ LET value3 == ForeachRegister(ForeachInstruction.operand3)
           buffer == foreach.iterator.buffer
       IN IF value3.type # "ITERATOR"
          THEN ForeachRaise("IncompatibleOperandTypes")
          ELSE IF Len(buffer) = 0
          THEN ForeachRaiseAt("StopIteration", <<>>)
          ELSE LET value == buffer[Len(buffer)]
                   key == buffer[Len(buffer) - 1]
                   registers == [[foreach.registers
                                    EXCEPT ![ForeachInstruction.operand1 + 1] = key]
                                    EXCEPT ![ForeachInstruction.operand2 + 1] = value]
               IN foreach' = [foreach EXCEPT
                    !.iterator.buffer = SubSeq(buffer, 1, Len(buffer) - 2),
                    !.registers = registers,
                    !.trace = Append(@, <<registers[2], registers[3]>>),
                    !.next_instruction_offset = @ + 1]

\* _execute_move (interpreter.py:206-215)
ForeachMove ==
    /\ ForeachExecutes("MOVE")
    /\ IF ForeachRegister(ForeachInstruction.operand2).type = "VOID"
       THEN ForeachRaise("IncompatibleOperandTypes")
       ELSE foreach' = [foreach EXCEPT
                !.registers[ForeachInstruction.operand1 + 1] =
                    ForeachRegister(ForeachInstruction.operand2),
                !.next_instruction_offset = @ + 1]

\* _execute_jump (interpreter.py:623-626)
ForeachJump ==
    /\ ForeachExecutes("JUMP")
    /\ foreach' = [foreach EXCEPT !.next_instruction_offset = ForeachInstruction.operand4]

\* _execute_load_void (interpreter.py:171-174)
ForeachLoadVoid ==
    /\ ForeachExecutes("LOAD_VOID")
    /\ foreach' = [foreach EXCEPT !.registers[ForeachInstruction.operand1 + 1] = VOID,
                                  !.next_instruction_offset = @ + 1]

\* _execute_return (interpreter.py:703-707)
ForeachReturn ==
    /\ ForeachExecutes("RETURN")
    /\ foreach' = [foreach EXCEPT
            !.return_value = ForeachRegister(ForeachInstruction.operand1),
            !.state = "returned"]

ForeachNext ==
    \/ ForeachGetExecutable
    \/ ForeachNewIterator
    \/ ForeachJumpIfFalse
    \/ ForeachIterate
    \/ ForeachMove
    \/ ForeachJump
    \/ ForeachLoadVoid
    \/ ForeachReturn

ForeachSpec == ForeachInit /\ [][ForeachNext]_vars

\* the pairs of a container, in order: the indices from 0 with the elements
\* of an array, the fields of a structure as they were inserted
PairsOf(container) ==
    IF container.type = "ARRAY"
    THEN [i \in 1 .. Len(container.elems) |-> <<Integer(i - 1), container.elems[i]>>]
    ELSE [i \in 1 .. Len(container.elems) |->
            <<container.elems[i].key, container.elems[i].value>>]

\* C16: a foreach over an array of N elements executes its body exactly N
\* times, the k-th time with the key INTEGER k-1 and the k-th element as the
\* value, and then exits; over a structure it executes the body once for each
\* field, in the order of insertion; `continue` goes on with the next pair,
\* and neither skips nor repeats one.
C16_ForeachVisitsEachPairOnce ==
    LET pairs == PairsOf(foreach.statement.container) IN
    foreach.state # "none"
    => /\ foreach.state \in {"parsed", "running", "returned"}
       /\ Len(foreach.trace) <= Len(pairs)
       /\ foreach.trace = SubSeq(pairs, 1, Len(foreach.trace))
       /\ foreach.state = "returned" => foreach.trace = pairs

\* the loop over an array of two elements, whose body continues before its
\* last statement, has exited
C16_Witness ==
    /\ foreach.state = "returned"
    /\ foreach.statement.container.type = "ARRAY"
    /\ foreach.statement.body = <<ContinueStatement, MoveStatement>>
    /\ Len(foreach.trace) = 2

\* ------------------------------------------------------------------------
\* Expressions in l-value position (src/compiler/bytecode_generator.py)
\* ------------------------------------------------------------------------
\* The compiled function is
\*     auto a = ..; auto b = ..; <statement>
\* where the statement is `<e> = 1;`, `<e> += 1;`, `++<e>;` or `<e>++;`.
\* a is register 0 and b register 1.  The generator's state g holds the
\* instructions, the register stack (RegisterStack._register_infos), the next
\* register of the pool and the exception that has been raised, if any: every
\* step after an exception leaves g as it is.
Nullary(type_, data) ==
    [class |-> "nullary", type |-> type_, operator |-> "", data |-> data, operands |-> <<>>]
Unary(type_, operator, operand) ==
    [class |-> "unary", type |-> type_, operator |-> operator, data |-> 0,
     operands |-> <<operand>>]
Binary(operator, operand1, operand2) ==
    [class |-> "binary", type |-> "", operator |-> operator, data |-> 0,
     operands |-> <<operand1, operand2>>]
Ternary(operand1, operand2, operand3) ==
    [class |-> "ternary", type |-> "", operator |-> "?", data |-> 0,
     operands |-> <<operand1, operand2, operand3>>]
Variary(operands) ==
    [class |-> "variary", type |-> "", operator |-> "(", data |-> 0, operands |-> operands]

\* _ensure_temporary_register (bytecode_generator.py:968-978)
ensure_temporary_register(g) ==
    LET g1 == pop_target(g)
        g2 == push_target(g1, <<>>)
    IN  IF Top(g2) # Top(g) THEN emit(g2, Instruction("MOVE", Top(g2), Top(g), 0, 0)) ELSE g2

\* pop_target, n times
RECURSIVE PopTargets(_, _)
PopTargets(g, n) == IF n <= 0 THEN g ELSE PopTargets(pop_target(g), n - 1)

\* expression.accept_visit, in the context with the given is_assigning_value
\* (which _assign_value sets where it is not the one of the caller)
RECURSIVE Visit(_, _, _)

\* visit_nullary_expression (bytecode_generator.py:437-621), for literals,
\* local variables and the function literal `() { return x; }`, whose data
\* is the register of the local x: find_variable marks the register of a
\* local that the function captures (function_scope.py:52-68, 129-130)
visit_nullary_expression(g, expression, is_assigning_value) ==
    IF is_assigning_value /\ expression.type # "IDENTIFIER"
    THEN raise(g, "LvalueRequired")
    ELSE IF expression.type = "INTEGER"
    THEN LET g1 == push_target(g, <<>>)
         IN  emit(g1, Instruction("LOAD_INTEGER", Top(g1), 0, 0, expression.data))
    ELSE IF expression.type = "STRING"
    THEN LET g1 == push_target(g, <<>>)
         IN  emit(g1, Instruction("LOAD_CONSTANT", Top(g1), 0, 0, expression.data))
    ELSE IF expression.type = "FUNCTION_LITERAL"
    THEN LET g1 == push_target(mark_register(g, expression.data), <<>>)
         IN  emit(g1, Instruction("NEW_CLOSURE", Top(g1), g.next_register_id,
                                  g.next_register_id, expression.data))
    ELSE IF is_assigning_value
    THEN LET g1 == peek_target(g)
         IN  IF expression.data # Top(g)
             THEN emit(g1, Instruction("MOVE", expression.data, Top(g), 0, 0))
             ELSE g1
    ELSE push_target(g, <<expression.data>>)

\* _OPERATOR_2_OPCODE1 (bytecode_generator.py:993-998)
OPERATOR_2_OPCODE1(operator) ==
    CASE operator = "+" -> "NO"
      [] operator = "-" -> "NEGATE"
      [] operator = "!" -> "LOGICAL_NOT"
      [] operator = "~" -> "BITWISE_NOT"

\* visit_unary_expression (bytecode_generator.py:623-699), for ++, -- and
\* the prefix operators
visit_unary_expression_any(g, expression, is_assigning_value) ==
    IF expression.operator \in {"++", "--"}
    THEN LET operand == expression.operands[1]
             postfix == expression.type = "POSTFIX"
             g1 == Visit(g, operand, is_assigning_value)
             g2 == IF postfix THEN ensure_temporary_register(g1) ELSE g1
             g3 == push_target(g2, <<>>)
             g4 == emit(g3, Instruction("LOAD_INTEGER", Top(g3), 0, 0, 1))
             register_id1 == Top(g4)
             g5 == peek_target(pop_target(g4))
             register_id2 == Top(g5)
             g6 == IF postfix THEN push_target(g5, <<>>) ELSE g5
             g7 == emit(g6, Instruction(IF expression.operator = "++" THEN "ADD"
                                         ELSE "SUBSTRATE",
                                         IF postfix THEN Top(g6) ELSE register_id2,
                                         register_id2, register_id1, 0))
             g8 == Visit(g7, operand, TRUE)
         IN  IF postfix THEN pop_target(g8) ELSE g8
    ELSE IF /\ expression.operator = "-"
            /\ expression.operands[1].class = "nullary"
            /\ expression.operands[1].type = "INTEGER"
    THEN Visit(g, [expression.operands[1] EXCEPT !.data = -@], is_assigning_value)
    ELSE LET g1 == Visit(g, expression.operands[1], is_assigning_value)
             g2 == pop_target(g1)
             opcode == OPERATOR_2_OPCODE1(expression.operator)
             g3 == push_target(g2, <<>>)
         IN  IF opcode # "NO" THEN emit(g3, Instruction(opcode, Top(g3), Top(g1), 0, 0))
             ELSE g2
visit_unary_expression(g, expression, is_assigning_value) ==
    IF is_assigning_value
    THEN raise(g, "LvalueRequired")
    ELSE visit_unary_expression_any(g, expression, is_assigning_value)

\* visit_binary_expression (bytecode_generator.py:701-799), for =, +=, +, .
\* and [
visit_binary_expression(g, expression, is_assigning_value) ==
    LET operand1 == expression.operands[1]
        operand2 == expression.operands[2]
    IN
    IF is_assigning_value /\ expression.operator \notin {".", "["}
    THEN raise(g, "LvalueRequired")
    ELSE IF expression.operator = "="
    THEN Visit(Visit(g, operand2, is_assigning_value), operand1, TRUE)
    ELSE IF expression.operator = "+="
    THEN LET g1 == Visit(Visit(g, operand1, is_assigning_value), operand2,
                         is_assigning_value)
             register_id1 == Top(g1)
             g2 == peek_target(pop_target(g1))
             register_id2 == Top(g2)
             g3 == emit(g2, Instruction("ADD", register_id2, register_id2, register_id1, 0))
         IN  Visit(g3, operand1, TRUE)
    ELSE IF expression.operator = "+"
    THEN LET g1 == Visit(Visit(g, operand1, is_assigning_value), operand2,
                         is_assigning_value)
             register_id1 == Top(g1)
             g2 == pop_target(g1)
             register_id2 == Top(g2)
             g3 == push_target(pop_target(g2), <<>>)
         IN  emit(g3, Instruction("ADD", Top(g3), register_id2, register_id1, 0))
    ELSE IF is_assigning_value
    THEN LET g1 == Visit(Visit(g, operand1, FALSE), operand2, FALSE)
             register_id1 == Top(g1)
             g2 == pop_target(g1)
             register_id2 == Top(g2)
             g3 == peek_target(pop_target(g2))
         IN  emit(g3, Instruction("SET_SLOT", Top(g3), register_id2, register_id1, 0))
    ELSE LET g1 == Visit(Visit(g, operand1, is_assigning_value), operand2,
                         is_assigning_value)
             register_id1 == Top(g1)
             g2 == pop_target(g1)
             register_id2 == Top(g2)
             g3 == push_target(pop_target(g2), <<>>)
         IN  emit(g3, Instruction("GET_SLOT", Top(g3), register_id2, register_id1, 0))

\* visit_ternary_expression (bytecode_generator.py:801-836)
visit_ternary_expression(g, expression, is_assigning_value) ==
    LET g1 == Visit(g, expression.operands[1], is_assigning_value)
        g2 == pop_target(g1)
        instruction_offset1 == get_next_instruction_offset(g2)
        g3 == emit(g2, Instruction("JUMP_IF_FALSE", Top(g1), 0, 0, 0))
        g4 == ensure_temporary_register(Visit(g3, expression.operands[2],
                                              is_assigning_value))
        instruction_offset2 == get_next_instruction_offset(g4)
        g5 == emit(g4, Instruction("JUMP", 0, 0, 0, 0))
        g6 == patch(g5, instruction_offset1, get_next_instruction_offset(g5))
        g7 == pop_target(g6)
        g8 == ensure_temporary_register(Visit(g7, expression.operands[3],
                                              is_assigning_value))
    IN  patch(g8, instruction_offset2, get_next_instruction_offset(g8))

\* the loop over expression.operands (bytecode_generator.py:841-843)
RECURSIVE VisitOperands(_, _, _)
VisitOperands(g, operands, is_assigning_value) ==
    IF operands = <<>> THEN g
    ELSE VisitOperands(ensure_temporary_register(Visit(g, Head(operands),
                                                       is_assigning_value)),
                       Tail(operands), is_assigning_value)

\* visit_variary_expression (bytecode_generator.py:838-856)
visit_variary_expression(g, expression, is_assigning_value) ==
    LET register_id_start == g.next_register_id
        g1 == VisitOperands(g, expression.operands, is_assigning_value)
        register_id_end == g1.next_register_id
        g2 == PopTargets(g1, register_id_end - register_id_start)
        g3 == push_target(g2, <<>>)
    IN  emit(g3, Instruction("CALL", Top(g3), register_id_start, register_id_end, 0))

Visit(g, expression, is_assigning_value) ==
    LET g1 == assign_value(g, is_assigning_value) IN
    IF Failed(g) THEN g
    ELSE leave_assign_value(
            CASE expression.class = "nullary" ->
                    visit_nullary_expression(g1, expression, is_assigning_value)
              [] expression.class = "unary" ->
                    visit_unary_expression(g1, expression, is_assigning_value)
              [] expression.class = "binary" ->
                    visit_binary_expression(g1, expression, is_assigning_value)
              [] expression.class = "ternary" ->
                    visit_ternary_expression(g1, expression, is_assigning_value)
              [] expression.class = "variary" ->
                    visit_variary_expression(g1, expression, is_assigning_value),
            g)

\* visit_expression_statement (bytecode_generator.py:433-435)
visit_expression_statement(g, expression) == pop_target(Visit(g, expression, FALSE))

\* ---- statements ----
BlockStatement(statements) == [type |-> "block", data |-> statements]
ExpressionStatement(expression) == [type |-> "expression", data |-> expression]
\* `auto x = <value>;`, for the next register x of the pool
AutoStatement(value) == [type |-> "auto", data |-> value]
WhileStatement(condition, body) ==
    [type |-> "while", data |-> [condition |-> condition, body |-> body]]
DoWhileStatement(body, condition) ==
    [type |-> "do_while", data |-> [condition |-> condition, body |-> body]]
\* condition and iteration are <<>> for None and <<expression>> otherwise
ForStatement(condition, iteration, body) ==
    [type |-> "for", data |-> [condition |-> condition, iteration |-> iteration,
                               body |-> body]]
Foreach(body) == [type |-> "foreach", data |-> ForeachStatement(VOID, body)]
Switch(expression, clauses) ==
    [type |-> "switch", data |-> SwitchStatement(expression, clauses)]

\* visit_block_statement (bytecode_generator.py:42-45)
visit_block_statement(g, statement) ==
    leave_block_scope(VisitStatements(enter_block_scope(g), statement))

\* visit_auto_statement (bytecode_generator.py:47-66), for one variable that
\* has a value
visit_auto_statement(g, statement) ==
    LET \* after the value (bytecode_generator.py:55-66)
        declare(g2) ==
            LET register_id1 == Top(g2)
                g3 == pop_target(g2)
                register_id2 == g3.next_register_id
                g4 == create_local_variable(g3)
            IN  IF register_id2 # register_id1
                THEN emit(g4, Instruction("MOVE", register_id2, register_id1, 0, 0))
                ELSE g4
    IN  declare(Visit(g, statement.data, g.is_assigning_value))

\* the condition of a loop: statement.condition.accept_visit, pop_target and
\* the JUMP_IF_FALSE that is added to the break list
\* (bytecode_generator.py:251-262, 294-305, 337-349)
visit_condition(g, condition) ==
    LET test(g1) ==
            LET g2 == pop_target(g1)
            IN  IF Failed(g2) THEN g2
                ELSE [add_instruction(g2, Instruction("JUMP_IF_FALSE", Top(g1), 0, 0, 0))
                        EXCEPT !.break_instruction_offsets =
                                    Append(@, get_next_instruction_offset(g2))]
    IN  test(Visit(g, condition, g.is_assigning_value))

\* visit_while_statement (bytecode_generator.py:242-281), without an
\* initialization
visit_while_statement(g, statement) ==
    LET g1 == enter_loop(g)
        label1 == get_next_instruction_offset(g1)
        g2 == visit_condition(g1, statement.condition)
        \* after the body (bytecode_generator.py:266-281)
        leave(g3) ==
            LET g4 == emit(g3, Instruction("JUMP", 0, 0, 0, label1))
                label2 == get_next_instruction_offset(g4)
                g5 == SetInstructions(g4, g4.break_instruction_offsets, label2)
                g6 == SetInstructions(g5, g5.continue_instruction_offsets, label1)
            IN  leave_loop(g6, g)
    IN  leave(VisitStatement(g2, statement.body))

\* visit_do_while_statement (bytecode_generator.py:283-323), without an
\* initialization
visit_do_while_statement(g, statement) ==
    LET g1 == enter_loop(g)
        label1 == get_next_instruction_offset(g1)
        \* after the condition (bytecode_generator.py:307-323)
        leave(g3, label2) ==
            LET g4 == emit(g3, Instruction("JUMP", 0, 0, 0, label1))
                label3 == get_next_instruction_offset(g4)
                g5 == SetInstructions(g4, g4.break_instruction_offsets, label3)
                g6 == SetInstructions(g5, g5.continue_instruction_offsets, label2)
            IN  leave_loop(g6, g)
        \* after the body (bytecode_generator.py:292-305)
        test(g2) ==
            leave(visit_condition(g2, statement.condition), get_next_instruction_offset(g2))
    IN  test(VisitStatement(g1, statement.body))

\* visit_for_statement (bytecode_generator.py:325-373), without an
\* initialization; the iteration is an expression statement
\* (parser.py:412-417)
visit_for_statement(g, statement) ==
    LET g1 == enter_loop(g)
        label1 == get_next_instruction_offset(g1)
        g2 == IF statement.condition # <<>> THEN visit_condition(g1, statement.condition[1])
              ELSE g1
        \* after the iteration (bytecode_generator.py:357-373)
        leave(g4) ==
            LET g5 == emit(g4, Instruction("JUMP", 0, 0, 0, label1))
                label2 == get_next_instruction_offset(g5)
                g6 == SetInstructions(g5, g5.break_instruction_offsets, label2)
                g7 == SetInstructions(g6, g6.continue_instruction_offsets, label1)
            IN  leave_loop(g7, g)
        \* after the body (bytecode_generator.py:353-355)
        iterate(g3) ==
            leave(IF statement.iteration # <<>>
                  THEN VisitStatement(g3, ExpressionStatement(statement.iteration[1]))
                  ELSE g3)
    IN  iterate(VisitStatement(g2, statement.body))

VisitStatement(g, statement) ==
    IF Failed(g) THEN g
    ELSE CASE statement.type = "block" -> visit_block_statement(g, statement.data)
           [] statement.type = "auto" -> visit_auto_statement(g, statement)
           [] statement.type = "break" -> visit_break_statement(g)
           [] statement.type = "continue" -> visit_continue_statement(g)
           [] statement.type = "switch" -> visit_switch_statement(g, statement.data)
           [] statement.type = "while" -> visit_while_statement(g, statement.data)
           [] statement.type = "do_while" -> visit_do_while_statement(g, statement.data)
           [] statement.type = "for" -> visit_for_statement(g, statement.data)
           [] statement.type = "foreach" -> visit_foreach_statement(g, statement.data)
           [] statement.type = "expression" -> visit_expression_statement(g, statement.data)
           [] statement.type = "assign" -> visit_assign_statement(g, statement)
           [] statement.type = "move" -> visit_move_statement(g)

\* the operands of the expressions: the locals a and b, and literals
Atoms == {Nullary("IDENTIFIER", 0), Nullary("IDENTIFIER", 1), Nullary("INTEGER", 1)}

\* the expressions that stand in l-value position
Candidates ==
    Atoms
    \cup {Unary("PREFIX", "-", operand) : operand \in Atoms}
    \cup {Binary("+", operand1, operand2) : operand1, operand2 \in Atoms}
    \cup {Binary("[", operand1, operand2) : operand1, operand2 \in Atoms}
    \cup {Binary(".", operand1, Nullary("STRING", 0)) : operand1 \in Atoms}
    \cup {Ternary(operand1, operand2, operand3) : operand1, operand2, operand3 \in Atoms}
    \cup UNION {{Variary(<<callee>> \o arguments) :
                    callee \in Atoms, arguments \in [1 .. n -> Atoms]} :
                n \in 0 .. MaxArguments}

\* the statements: an assignment, a compound assignment, an increment and a
\* decrement of a candidate
ExpressionStatements ==
    {Binary(operator, candidate, Nullary("INTEGER", 1)) :
        operator \in {"=", "+="}, candidate \in Candidates}
    \cup {Unary(type_, operator, candidate) :
            type_ \in {"PREFIX", "POSTFIX"}, operator \in {"++", "--"},
            candidate \in Candidates}

CompilerInit ==
    /\ InitInterpreter
    /\ switch = NoSwitch
    /\ ops = NoOps
    /\ foreach = NoForeach
    /\ \E statement \in ExpressionStatements :
        compiler = [state |-> "parsed", statement |-> statement,
                    generator |-> Generator(2)]

\* BytecodeGenerator.get_executable (bytecode_generator.py:858-861) compiles
\* the statement
CompilerGetExecutable ==
    /\ compiler.state = "parsed"
    /\ compiler' = [compiler EXCEPT
            !.state = "generated",
            !.generator = visit_expression_statement(compiler.generator,
                                                     compiler.statement)]
    /\ UNCHANGED <<interpreter_vars, switch, ops, foreach>>

CompilerNext == CompilerGetExecutable

CompilerSpec == CompilerInit /\ [][CompilerNext]_vars

\* ---- the statements of a function ----
\* The compiled function is
\*     (a, b) { <statements> }
\* a is register 0 and b register 1.  The statements of the function are
\* visited one at a time; after the last one the implicit return is added.
a == Nullary("IDENTIFIER", 0)
b == Nullary("IDENTIFIER", 1)

\* the statements of the functions
TopStatements ==
    <<ExpressionStatement(Binary("=", a, b)),
      ExpressionStatement(Binary("=", a, Unary("PREFIX", "+", b))),
      ExpressionStatement(Unary("PREFIX", "+", b)),
      ExpressionStatement(Unary("PREFIX", "~", b)),
      ExpressionStatement(Binary("=", Nullary("INTEGER", 1), b)),
      BlockStatement(<<ExpressionStatement(Binary("=", Nullary("INTEGER", 1), b))>>),
      WhileStatement(a, BlockStatement(<<BreakStatement, AssignStatement(1)>>)),
      WhileStatement(a, BlockStatement(<<ContinueStatement, BreakStatement>>)),
      WhileStatement(a, ExpressionStatement(Binary("=", Nullary("INTEGER", 1), b))),
      DoWhileStatement(BlockStatement(<<ContinueStatement, BreakStatement>>), a),
      ForStatement(<<a>>, <<Binary("=", a, b)>>, BlockStatement(<<ContinueStatement>>)),
      ForStatement(<<>>, <<>>, BlockStatement(<<BreakStatement, ContinueStatement>>)),
      Foreach(<<ContinueStatement, BreakStatement>>),
      Switch(1, <<SwitchClause(1, <<BreakStatement>>),
                  SwitchClause(None, <<AssignStatement(2), BreakStatement>>)>>),
      Switch(1, <<SwitchClause(1, <<ExpressionStatement(Binary("=", Nullary("INTEGER", 1),
                                                             b))>>)>>),
      WhileStatement(a, Switch(1, <<SwitchClause(1, <<ContinueStatement>>),
                                    SwitchClause(None, <<BreakStatement>>)>>)),
      DoWhileStatement(Switch(1, <<SwitchClause(2, <<ContinueStatement, BreakStatement>>)>>),
                       a),
      Switch(1, <<SwitchClause(1, <<WhileStatement(a, BlockStatement(<<BreakStatement,
                                                                       ContinueStatement>>)),
                                    BreakStatement>>)>>),
      WhileStatement(a, BlockStatement(
            <<ForStatement(<<b>>, <<>>, BlockStatement(<<ContinueStatement, BreakStatement>>)),
              ContinueStatement, BreakStatement>>)),
      Foreach(<<DoWhileStatement(ContinueStatement, a), BreakStatement>>),
      BlockStatement(<<AutoStatement(Nullary("INTEGER", 1)),
                       ExpressionStatement(Nullary("FUNCTION_LITERAL", 2))>>),
      WhileStatement(a, BlockStatement(<<AutoStatement(Nullary("INTEGER", 1)),
                                         ExpressionStatement(Nullary("FUNCTION_LITERAL", 2)),
                                         ContinueStatement>>))>>

\* the implicit return of _create_function_prototype
\* (bytecode_generator.py:891-906)
implicit_return(g) ==
    LET g1 == push_target(g, <<>>)
        g2 == emit(g1, Instruction("LOAD_VOID", Top(g1), 0, 0, 0))
        g3 == pop_target(g2)
    IN  emit(g3, Instruction("RETURN", Top(g2), 0, 0, 0))

StatementsInit ==
    /\ InitInterpreter
    /\ switch = NoSwitch
    /\ ops = NoOps
    /\ foreach = NoForeach
    /\ \E n \in 1 .. MaxStatements :
       \E choice \in [1 .. n -> DOMAIN TopStatements] :
        compiler = [state |-> "parsed",
                    statement |-> [i \in 1 .. n |-> TopStatements[choice[i]]],
                    visited |-> 0,
                    generator |-> Generator(2)]

\* the loop over the statements of the function in _create_function_prototype
\* (bytecode_generator.py:886-890): the next statement accepts the visit
StatementsAcceptVisit ==
    /\ compiler.state = "parsed"
    /\ compiler.visited < Len(compiler.statement)
    /\ \E g \in {VisitStatement(compiler.generator, compiler.statement[compiler.visited + 1])} :
        compiler' = [compiler EXCEPT !.generator = g,
                                     !.visited = @ + 1,
                                     !.state = IF Failed(g) THEN "failed" ELSE @]
    /\ UNCHANGED <<interpreter_vars, switch, ops, foreach>>

\* _create_function_prototype after the loop (bytecode_generator.py:891-906)
StatementsReturn ==
    /\ compiler.state = "parsed"
    /\ compiler.visited = Len(compiler.statement)
    /\ \E g \in {implicit_return(compiler.generator)} :
        compiler' = [compiler EXCEPT !.generator = g,
                                     !.state = IF Failed(g) THEN "failed" ELSE "generated"]
    /\ UNCHANGED <<interpreter_vars, switch, ops, foreach>>

StatementsNext ==
    \/ StatementsAcceptVisit
    \/ StatementsReturn

StatementsSpec == StatementsInit /\ [][StatementsNext]_vars

\* C21: if a compile error is raised inside a block scope, a loop context, a
\* switch context or an l-value context, each of them is restored during the
\* unwind: once the visit of a top-level statement has failed, is_assigning_value,
\* the break, continue and fall-through lists and the sub-scopes of the register
\* pool are those that were in effect before the statement was visited.  The
\* context managers of bytecode_generator.py:920-966 and RegisterPool.save
\* restore after their yield without try/finally, so an exception skips the
\* restoration and TLC finds this statement of the claim violated.
C21_ContextsRestoredOnError ==
    compiler.state = "failed" =>
        /\ compiler.generator.is_assigning_value = FALSE
        /\ compiler.generator.break_instruction_offsets = <<>>
        /\ compiler.generator.continue_instruction_offsets = <<>>
        /\ compiler.generator.fallthrough_instruction_offset = <<>>
        /\ compiler.generator.scopes = <<>>

\* The jumps of break and continue statements, as the language defines them:
\* the pairs <<instruction offset, target>> for the statement laid out from
\* the offset start, inside a loop whose retry label is retry and a loop or
\* switch whose first following instruction is exit.  A loop is retried where
\* its next iteration begins: at the condition of a while or do-while loop, at
\* the iteration expression of a for loop that has one (else at its
\* condition), and at the test of the iterator of a foreach loop.
Size(statements) == Len(VisitStatements(Generator(2), statements).instructions)
ConditionSize(condition) == Len(visit_condition(Generator(2), condition).instructions)

RECURSIVE Jumps(_, _, _, _)
RECURSIVE JumpsOfBody(_, _, _, _)
RECURSIVE JumpsOfClauses(_, _, _, _)
Jumps(statement, start, retry, exit) ==
    LET end == start + Size(<<statement>>)
        data == statement.data
    IN  CASE statement.type = "break" -> {<<start, exit>>}
          [] statement.type = "continue" -> {<<start, retry>>}
          [] statement.type = "block" -> JumpsOfBody(data, start, retry, exit)
          [] statement.type = "while" ->
                Jumps(data.body, start + ConditionSize(data.condition), start, end)
          [] statement.type = "do_while" ->
                Jumps(data.body, start, start + Size(<<data.body>>), end)
          [] statement.type = "for" ->
                LET body == IF data.condition = <<>> THEN start
                            ELSE start + ConditionSize(data.condition[1])
                IN  Jumps(data.body, body,
                          IF data.iteration = <<>> THEN start
                          ELSE body + Size(<<data.body>>),
                          end)
          [] statement.type = "foreach" ->
                LET test == start + Size(<<Foreach(<<>>)>>) - 3
                IN  JumpsOfBody(data.body, test + 2, test, end)
          [] statement.type = "switch" ->
                JumpsOfClauses(data.clauses, start + Size(<<Switch(data.expression, <<>>)>>),
                               retry, end)
          [] OTHER -> {}

JumpsOfBody(statements, start, retry, exit) ==
    IF statements = <<>> THEN {}
    ELSE Jumps(Head(statements), start, retry, exit)
         \cup JumpsOfBody(Tail(statements), start + Size(<<Head(statements)>>), retry, exit)

JumpsOfClauses(clauses, start, retry, exit) ==
    IF clauses = <<>> THEN {}
    ELSE LET clause == Head(clauses)
             empty == Switch(1, <<SwitchClause(clause.label, <<>>)>>)
             body == IF clause.label = None THEN start
                     ELSE start + Size(<<empty>>) - Size(<<Switch(1, <<>>)>>) - 1
             end == start + Size(<<Switch(1, <<clause>>)>>) - Size(<<Switch(1, <<>>)>>)
         IN  JumpsOfBody(clause.statements, body, retry, exit)
             \cup JumpsOfClauses(Tail(clauses), end, retry, exit)

\* C25: when the visitor of a loop or of a switch has returned, every JUMP of
\* a break targets the first instruction after the innermost enclosing loop
\* or switch and every JUMP of a continue targets the retry label of the
\* innermost enclosing loop, also from inside a switch nested in the loop.
\* visit_for_statement patches the continue list to the label of the
\* condition, not to the iteration expression (the defect of C26), so TLC
\* finds this statement of the claim violated.
C25_BreakContinuePatched ==
    compiler.state = "parsed" =>
        \A jump \in JumpsOfBody(SubSeq(compiler.statement, 1, compiler.visited), 0, 0, 0) :
            LET instruction == compiler.generator.instructions[jump[1] + 1]
            IN  instruction.op = "JUMP" /\ instruction.operand4 = jump[2]

\* C23: compiling an expression in r-value mode leaves the target stack one
\* entry deeper (unary `+x` included), compiling a statement (foreach and
\* switch included) leaves its depth unchanged, and no pop or peek reads an
\* empty entry (IndexError) or fails the LIFO assertion (AssertionError).
\* visit_unary_expression pushes no target for `+` and visit_foreach_statement
\* never pops the target of its iterator, so TLC finds this statement of the
\* claim violated.
C23_TargetStackDiscipline ==
    [][StatementsAcceptVisit =>
        LET g == compiler.generator
            statement == compiler.statement[compiler.visited + 1]
        IN  /\ compiler'.generator.error \notin {"IndexError", "AssertionError"}
            /\ ~Failed(compiler'.generator) =>
                   Len(compiler'.generator.register_infos) = Len(g.register_infos)
            /\ statement.type = "expression" =>
                   LET h == Visit(g, statement.data, FALSE)
                   IN  ~Failed(h) => Len(h.register_infos) = Len(g.register_infos) + 1]_vars

\* ---- the execution of a loop ----
\* The executed function is
\*     (a, b) { for (; a; <iteration>) { <body> } }
\* with the iteration expression `a = b` or none, or
\*     (a, b) { while (a) { auto x = a; () { return x; }; <body> } }
\* run in a frame whose registers 0 and 1 hold the arguments.  x is register
\* 2; the prototype of the function literal has one capture, the original
\* capture of x.

\* the statements of the body of the loop
LoopBodyStatements ==
    <<ContinueStatement, BreakStatement, ExpressionStatement(Binary("=", a, b))>>

LoopKinds == {"for", "for_iteration", "while"}

LoopStatement(kind, body) ==
    IF kind = "while"
    THEN WhileStatement(a, BlockStatement(<<AutoStatement(a),
                                            ExpressionStatement(Nullary("FUNCTION_LITERAL", 2))>>
                                          \o body))
    ELSE ForStatement(<<a>>, IF kind = "for" THEN <<>> ELSE <<Binary("=", a, b)>>,
                      BlockStatement(body))

\* the values of the arguments
LoopArguments == {VOID, Boolean(FALSE), Boolean(TRUE), Integer(2)}

\* the instructions of the function around the statement, with the implicit
\* return of _create_function_prototype (bytecode_generator.py:891-906)
CompileFunction(statement) ==
    implicit_return(VisitStatement(Generator(2), statement)).instructions

LoopInit ==
    /\ InitInterpreter
    /\ switch = NoSwitch
    /\ ops = NoOps
    /\ compiler = NoCompiler
    /\ \E kind \in LoopKinds, m \in 0 .. MaxStatements, argument1, argument2 \in LoopArguments :
       \E choice \in [1 .. m -> DOMAIN LoopBodyStatements] :
        foreach = [state |-> "parsed",
                   kind |-> kind,
                   body |-> [k \in 1 .. m |-> LoopBodyStatements[choice[k]]],
                   instructions |-> <<>>,
                   registers |-> <<argument1, argument2, VOID, VOID>>,
                   next_instruction_offset |-> 0,
                   iterator |-> NoIterator,
                   trace |-> <<>>,
                   source_location |-> <<>>,
                   return_value |-> VOID,
                   closures |-> <<>>,
                   captures |-> <<>>,
                   register_id_2_original_capture |-> [register_id \in 0 .. 3 |-> 0]]

\* BytecodeGenerator.get_executable (bytecode_generator.py:858-861) compiles
\* the function; the interpreter then runs it
LoopGetExecutable ==
    /\ foreach.state = "parsed"
    /\ foreach' = [foreach EXCEPT
            !.state = "running",
            !.instructions = CompileFunction(LoopStatement(foreach.kind, foreach.body))]
    /\ UNCHANGED <<interpreter_vars, switch, ops, compiler>>

\* the Value a capture of the frame refers to: the register it is linked to,
\* or its own Value (value.py:36-46)
LoopCaptureValue(capture) ==
    IF capture.linked THEN ForeachRegister(capture.register_id) ELSE capture.value

\* _execute_new_closure (interpreter.py:663-677) without default arguments,
\* and _make_closure (interpreter.py:80-104) for a prototype whose
\* capture_infos are [(True, operand4)]: the original capture of the register
\* is looked up in register_id_2_original_capture, and made if it is not
\* there.  created records the value of the register at that time.
LoopNewClosure ==
    /\ ForeachExecutes("NEW_CLOSURE")
    /\ Len(foreach.closures) < MaxClosures
    /\ LET register_id == ForeachInstruction.operand4
           found == foreach.register_id_2_original_capture[register_id]
           capture_id == IF found # 0 THEN found ELSE Len(foreach.captures) + 1
       IN  foreach' = [foreach EXCEPT
                !.captures = IF found # 0 THEN @
                             ELSE Append(@, [linked |-> TRUE, register_id |-> register_id,
                                             value |-> VOID]),
                !.register_id_2_original_capture[register_id] = capture_id,
                !.closures = Append(@, [captures |-> <<capture_id>>,
                                        created |-> ForeachRegister(register_id)]),
                !.registers[ForeachInstruction.operand1 + 1] =
                    ClosureValue(Len(foreach.closures) + 1),
                !.next_instruction_offset = @ + 1]

\* the executor of KILL_ORIGINAL_CAPTURES, which interpreter.py:820-869 does
\* not register: the captures of the registers at or above operand1 are
\* detached, each keeping a copy of the value of its register, and leave
\* register_id_2_original_capture
LoopKillOriginalCaptures ==
    /\ ForeachExecutes("KILL_ORIGINAL_CAPTURES")
    /\ LET dict == foreach.register_id_2_original_capture
           killed == {dict[register_id] :
                        register_id \in {r \in DOMAIN dict : r >= ForeachInstruction.operand1}}
       IN  foreach' = [foreach EXCEPT
                !.captures = [capture_id \in DOMAIN foreach.captures |->
                                IF capture_id \in killed
                                THEN [linked |-> FALSE,
                                      register_id |-> foreach.captures[capture_id].register_id,
                                      value |-> LoopCaptureValue(foreach.captures[capture_id])]
                                ELSE foreach.captures[capture_id]],
                !.register_id_2_original_capture =
                    [register_id \in DOMAIN dict |->
                        IF register_id >= ForeachInstruction.operand1 THEN 0
                        ELSE dict[register_id]],
                !.next_instruction_offset = @ + 1]

\* _execute_instructions (interpreter.py:151-163) over the instructions that
\* the loops compile to
LoopNext ==
    \/ LoopGetExecutable
    \/ ForeachJumpIfFalse
    \/ ForeachMove
    \/ ForeachJump
    \/ LoopNewClosure
    \/ LoopKillOriginalCaptures
    \/ ForeachLoadVoid
    \/ ForeachReturn

LoopSpec == LoopInit /\ [][LoopNext]_vars

\* the offsets of the JUMPs of the continue statements of the body of the
\* for loop, and the offset of the first instruction of its iteration
\* expression
ForIteration(body) == ConditionSize(a) + Size(<<BlockStatement(body)>>)
ForContinues(body) ==
    {ConditionSize(a) + k - 1 : k \in {k \in DOMAIN body : body[k].type = "continue"}}

\* C26: in a for loop that has an iteration expression, executing `continue`
\* in the body causes the iteration expression to be executed before the
\* condition is evaluated again: the instruction that follows the JUMP of a
\* continue is the first one of the iteration expression.
\* visit_for_statement patches the continue list to the label of the
\* condition, so the iteration expression is skipped and TLC finds this
\* statement of the claim violated.
C26_ContinueRunsIteration ==
    [][(/\ foreach.state = "running"
        /\ foreach.kind = "for_iteration"
        /\ foreach.next_instruction_offset \in ForContinues(foreach.body))
       => foreach'.next_instruction_offset = ForIteration(foreach.body)]_vars

\* C27: closures created in different executions of the same block, here
\* successive iterations of the body of the while loop, that capture the
\* local x declared in the block get distinct captures, each keeping the
\* value x had in its own execution.  The generator emits
\* KILL_ORIGINAL_CAPTURES only at the end of the block; the JUMP of a
\* continue leaves the block without it, the next iteration finds the capture
\* still linked to the register, and TLC finds this statement of the claim
\* violated.
C27_DistinctCaptures ==
    foreach.state \in {"running", "returned"} =>
        /\ \A i, j \in DOMAIN foreach.closures :
                i < j => foreach.closures[i].captures # foreach.closures[j].captures
        /\ \A i \in DOMAIN foreach.closures :
                LoopCaptureValue(foreach.captures[foreach.closures[i].captures[1]])
                    = foreach.closures[i].created

IsLvalue(expression) ==
    \/ expression.class = "nullary" /\ expression.type = "IDENTIFIER"
    \/ expression.class = "binary" /\ expression.operator \in {".", "["}

\* C13: an expression in l-value position (the left of `=` or of a compound
\* assignment, the operand of `++` or `--`) compiles only if it is a bare
\* identifier or a `.` or `[` access; a literal, a unary expression, another
\* binary expression, a ternary expression and a call give LvalueRequired.
\* The code checks neither a ternary expression nor a call, so that TLC finds
\* this statement of the claim violated.
C13_LvalueRequired ==
    compiler.state = "generated"
    => IF IsLvalue(compiler.statement.operands[1])
       THEN compiler.generator.error # "LvalueRequired"
       ELSE compiler.generator.error = "LvalueRequired"

\* ------------------------------------------------------------------------
\* Claims about errors that leave a closure call (src/vm/interpreter.py)
\* ------------------------------------------------------------------------
\* An exception that an executor or _call_closure raises passes through every
\* enclosing _call_closure, run and require without executing a statement of
\* the interpreter (none has an except or finally clause), so that the state
\* in which `error` is set is the state that the host finds.

\* C20: when a runtime error propagates out of a closure call, the current
\* call frame is restored to the frame that was current before the call: once
\* the error has reached the host, which made the outermost call with no
\* current frame, there is no current frame.  _call_closure restores
\* self._call_frame only after _execute_instructions has returned, so that
\* TLC finds this statement of the claim violated.
C20_FrameRestoredOnError == error # NoError => call_frames = <<>>

====
